---- MODULE Spec2Model ----
(***************************************************************************)
(* A model of the AIA policy-illustration extractor (src/src/pdf_extractor *)
(* .py), of the record types its output is loaded into (src/src/config.py) *)
(* and of the callers that run it (src/web/app.py, src/src/extract.py).    *)
(*                                                                         *)
(* Text is a sequence of characters.  An ASCII character is the one-char   *)
(* string; a non-ASCII character is written by its code point, "U+4FDD".   *)
(* A number the code holds as a float is held in fixed point, as a count   *)
(* of 1/Scale units; integers (years, ages, column indices) are integers.  *)
(***************************************************************************)
EXTENDS Integers, Sequences, FiniteSets, TLC

\* -------------------------------------------------------------------------
\* Characters and the str methods the extractor uses
\* -------------------------------------------------------------------------

\* chr(32) .. chr(126), in order (the grave accent, chr(96), by its code point)
AsciiTable ==
  << " ", "!", "\"", "#", "$", "%", "&", "'", "(", ")", "*", "+", ",", "-", ".", "/",
     "0", "1", "2", "3", "4", "5", "6", "7", "8", "9", ":", ";", "<", "=", ">", "?",
     "@", "A", "B", "C", "D", "E", "F", "G", "H", "I", "J", "K", "L", "M", "N", "O",
     "P", "Q", "R", "S", "T", "U", "V", "W", "X", "Y", "Z", "[", "\\", "]", "^", "_",
     "U+0060", "a", "b", "c", "d", "e", "f", "g", "h", "i", "j", "k", "l", "m", "n", "o",
     "p", "q", "r", "s", "t", "u", "v", "w", "x", "y", "z", "{", "|", "}", "~" >>

AsciiLo == 32
AsciiHi == 126

\* chr(code) for a printable code
Chr(code) == AsciiTable[code - AsciiLo + 1]

AsciiDigits == {"0", "1", "2", "3", "4", "5", "6", "7", "8", "9"}

\* SUPERSCRIPT TWO: str.isdigit() is True for it, int() raises ValueError on it,
\* and the regex class \d does not match it.
SuperTwo == "U+00B2"
EmDash == "U+2014"

DigitValue == [c \in AsciiDigits |-> (CHOOSE i \in 1..95 : AsciiTable[i] = c) - 17]

UpperLetters == {AsciiTable[i] : i \in 34..59}

LowerOf == [c \in UpperLetters |-> AsciiTable[(CHOOSE i \in 34..59 : AsciiTable[i] = c) + 32]]

\* str.lower(), character by character
Lower(s) == [i \in 1..Len(s) |-> IF s[i] \in UpperLetters THEN LowerOf[s[i]] ELSE s[i]]

Whitespace == {" ", "\n", "\t", "\r"}

RECURSIVE LStrip(_)
LStrip(s) == IF s # <<>> /\ Head(s) \in Whitespace THEN LStrip(Tail(s)) ELSE s

RECURSIVE RStrip(_)
RStrip(s) ==
  IF s # <<>> /\ s[Len(s)] \in Whitespace THEN RStrip(SubSeq(s, 1, Len(s) - 1)) ELSE s

\* str.strip()
Strip(s) == RStrip(LStrip(s))

\* needle occurs in hay at position i
MatchAt(hay, needle, i) ==
  /\ i + Len(needle) - 1 <= Len(hay)
  /\ \A k \in 1..Len(needle) : hay[i + k - 1] = needle[k]

\* the test  needle in hay
Contains(hay, needle) ==
  \/ needle = <<>>
  \/ \E i \in 1..(Len(hay) - Len(needle) + 1) : hay[i] = needle[1] /\ MatchAt(hay, needle, i)

\* str.isdigit()
IsDigit(s) == s # <<>> /\ \A i \in 1..Len(s) : s[i] \in AsciiDigits \cup {SuperTwo}

\* int(s) returns (does not raise ValueError) for a string that passed isdigit()
IntOk(s) == \A i \in 1..Len(s) : s[i] \in AsciiDigits

RECURSIVE IntOf(_)
IntOf(s) ==
  IF s = <<>> THEN 0 ELSE 10 * IntOf(SubSeq(s, 1, Len(s) - 1)) + DigitValue[s[Len(s)]]

\* str.split(sep) for a one-character separator
RECURSIVE Split(_, _)
Split(s, sep) ==
  IF \A i \in 1..Len(s) : s[i] # sep THEN <<s>>
  ELSE LET p == CHOOSE i \in 1..Len(s) : s[i] = sep /\ \A j \in 1..(i - 1) : s[j] # sep
       IN  <<SubSeq(s, 1, p - 1)>> \o Split(SubSeq(s, p + 1, Len(s)), sep)

\* ' '.join(parts) and friends
RECURSIVE Join(_, _)
Join(parts, sep) ==
  IF parts = <<>> THEN <<>>
  ELSE IF Len(parts) = 1 THEN parts[1]
  ELSE parts[1] \o sep \o Join(Tail(parts), sep)

RECURSIVE Concat(_)
Concat(seqs) == IF seqs = <<>> THEN <<>> ELSE Head(seqs) \o Concat(Tail(seqs))

\* a cell pdfplumber reports as None; "None" is no character
NoneCell == <<"None">>

\* the truth value of a cell:  if cell
Truthy(c) == c # <<>> /\ c # NoneCell

\* max(len(row) for row in table)
RECURSIVE MaxLen(_)
MaxLen(rows) ==
  IF rows = <<>> THEN 0
  ELSE LET m == MaxLen(Tail(rows)) IN IF Len(Head(rows)) > m THEN Len(Head(rows)) ELSE m

Min(a, b) == IF a < b THEN a ELSE b
Max(a, b) == IF a > b THEN a ELSE b

\* -------------------------------------------------------------------------
\* CID decoding and numeric cleaning
\* -------------------------------------------------------------------------

CidOffset == 29
CidPrefix == <<"(", "c", "i", "d", ":">>

\* the number of leading ASCII digits of s
RECURSIVE DigitRun(_)
DigitRun(s) == IF s # <<>> /\ Head(s) \in AsciiDigits THEN 1 + DigitRun(Tail(s)) ELSE 0

\* length of the match of \(cid:(\d+)\) at the start of s, 0 when there is none
CidMatchLen(s) ==
  IF ~MatchAt(s, CidPrefix, 1) THEN 0
  ELSE LET n == DigitRun(SubSeq(s, 6, Len(s)))
       IN  IF n >= 1 /\ 6 + n <= Len(s) /\ s[6 + n] = ")" THEN 6 + n ELSE 0

\* a faulty replacement: the escape's index taken for the character code
CidReplaceNoOffset(digits) ==
  IF AsciiLo <= IntOf(digits) /\ IntOf(digits) <= AsciiHi THEN <<Chr(IntOf(digits))>> ELSE <<>>

\* _replace: the character for one escape, '' when it is not printable
CidReplace(digits) ==
  LET ascii_code == IntOf(digits) + CidOffset
  IN  IF AsciiLo <= ascii_code /\ ascii_code <= AsciiHi THEN <<Chr(ascii_code)>> ELSE <<>>

RECURSIVE CidSub(_)
CidSub(s) ==
  IF s = <<>> THEN <<>>
  ELSE LET m == CidMatchLen(s)
       IN  IF m > 0
           THEN CidReplace(SubSeq(s, 6, m - 1)) \o CidSub(SubSeq(s, m + 1, Len(s)))
           ELSE <<Head(s)>> \o CidSub(Tail(s))

decode_cid(text) ==
  IF text = <<>> THEN <<>>
  ELSE IF ~Contains(text, CidPrefix) THEN text
  ELSE CidSub(text)

\* decode_cid(str(c)).strip() if c else ''
DecodeCell(c) == IF Truthy(c) THEN Strip(decode_cid(c)) ELSE <<>>

\* fixed point: a float v is held as v * Scale, truncated
Scale == 10

BlankTokens ==
  { <<"-">>, <<EmDash>>, <<"N", "/", "A">>, <<"U+4E0D", "U+9002", "U+7528">>, <<>> }

RECURSIVE Filter(_, _)
Filter(s, keep) ==
  IF s = <<>> THEN <<>>
  ELSE (IF Head(s) \in keep THEN <<Head(s)>> ELSE <<>>) \o Filter(Tail(s), keep)

\* float() taken to accept every string with a digit in it
FloatOkAnyDigit(s) == \E i \in 1..Len(s) : s[i] \in AsciiDigits

\* float(cleaned) accepts: an optional leading '-', then digits with at most one
\* '.', at least one digit in all
FloatOk(s) ==
  LET body == IF s # <<>> /\ Head(s) = "-" THEN Tail(s) ELSE s
  IN  /\ \A i \in 1..Len(body) : body[i] # "-"
      /\ Cardinality({i \in 1..Len(body) : body[i] = "."}) <= 1
      /\ \E i \in 1..Len(body) : body[i] \in AsciiDigits

FloatOf(s) ==
  LET neg   == s # <<>> /\ Head(s) = "-"
      body  == IF neg THEN Tail(s) ELSE s
      parts == Split(body, ".")
      whole == IntOf(parts[1])
      frac  == IF Len(parts) > 1 /\ parts[2] # <<>> THEN DigitValue[parts[2][1]] ELSE 0
      mag   == whole * Scale + frac
  IN  IF neg THEN 0 - mag ELSE mag

clean_numeric(text) ==
  IF ~Truthy(text) THEN 0
  ELSE LET t == Strip(text)
       IN  IF t \in BlankTokens THEN 0
           ELSE LET cleaned == Filter(t, AsciiDigits \cup {".", "-"})
                IN  IF cleaned = <<>> \/ cleaned = <<"-">> THEN 0
                    ELSE IF FloatOk(cleaned) THEN FloatOf(cleaned) ELSE 0

\* -------------------------------------------------------------------------
\* Table detection helpers
\* -------------------------------------------------------------------------

\* the cells of header_rows, row by row, in reading order
RECURSIVE HeaderParts(_)
HeaderParts(cells) ==
  IF cells = <<>> THEN <<>>
  ELSE LET cell    == Head(cells)
           decoded == decode_cid(cell)
       IN  (IF Truthy(cell)
            THEN IF cell # decoded THEN <<decoded, cell>> ELSE <<decoded>>
            ELSE <<>>) \o HeaderParts(Tail(cells))

_get_table_header_text(header_rows) == Join(HeaderParts(Concat(header_rows)), <<" ">>)

nw_keywords ==
  << <<"U+4FDD", "U+8BC1", "U+73B0", "U+91D1", "U+4EF7", "U+503C">>,
     <<"U+4FDD", "U+8B49", "U+73FE", "U+91D1", "U+50F9", "U+503C">>,
     <<"U+9000", "U+4FDD", "U+4EF7", "U+503C">>,
     <<"U+9000", "U+4FDD", "U+50F9", "U+503C">>,
     <<"U+9000", "U+4FDD", "U+53D1", "U+8FD8">>,
     <<"U+9000", "U+4FDD", "U+767C", "U+9084">>,
     <<"U+4FDD", "U+8BC1", "U+9000", "U+4FDD">>,
     <<"U+4FDD", "U+8B49", "U+9000", "U+4FDD">>,
     <<"U+7D2F", "U+79EF", "U+4FDD", "U+8D39">>,
     <<"U+7D2F", "U+7A4D", "U+4FDD", "U+8CBB">>,
     <<"U+7D2F", "U+79EF", "U+5DF2", "U+7F34", "U+4FDD", "U+8D39">>,
     <<"U+7D2F", "U+7A4D", "U+5DF2", "U+7E73", "U+4FDD", "U+8CBB">>,
     <<"g", "u", "a", "r", "a", "n", "t", "e", "e", "d">>,
     <<"s", "u", "r", "r", "e", "n", "d", "e", "r">>,
     <<"c", "a", "s", "h", " ", "v", "a", "l", "u", "e">>,
     <<"(", "a", ")">>,
     <<"(", "b", ")">>,
     <<"(", "c", ")">>,
     <<"(", "e", ")">> >>

db_keywords ==
  << <<"U+8EAB", "U+6545", "U+8D54", "U+507F">>,
     <<"U+8EAB", "U+6545", "U+8CE0", "U+511F">>,
     <<"U+6B7B", "U+4EA1", "U+4FDD", "U+969C">>,
     <<"d", "e", "a", "t", "h", " ", "b", "e", "n", "e", "f", "i", "t">>,
     <<"d", "e", "a", "t", "h", "_", "b", "e", "n", "e", "f", "i", "t">>,
     <<"(", "f", ")">>,
     <<"(", "g", ")">>,
     <<"(", "h", ")">>,
     <<"(", "i", ")">>,
     <<"(", "j", ")">> >>

wd_keywords ==
  << <<"U+63D0", "U+53D6">>,
     <<"U+63D0", "U+9818">>,
     <<"U+6BCF", "U+5E74", "U+53EF", "U+63D0", "U+53D6">>,
     <<"U+6BCF", "U+5E74", "U+53EF", "U+63D0", "U+9818">>,
     <<"U+63D0", "U+53D6", "U+65B9", "U+6848">>,
     <<"U+63D0", "U+9818", "U+65B9", "U+6848">>,
     <<"w", "i", "t", "h", "d", "r", "a", "w", "a", "l">>,
     <<"w", "i", "t", "h", "d", "r", "a", "w">>,
     <<"(", "1", ")">>,
     <<"(", "2", ")">> >>

\* sum(1 for kw in keywords if kw in flat_lower or kw in flat)
KeywordScore(keywords, flat) ==
  LET flat_lower == Lower(flat)
  IN  Cardinality({i \in 1..Len(keywords) :
                     Contains(flat_lower, keywords[i]) \/ Contains(flat, keywords[i])})

TierExact(flat, ncols) ==
  IF ncols = 8 /\ Contains(flat, <<"(", "A", ")">>) /\ Contains(flat, <<"(", "E", ")">>)
    THEN "no_withdrawal"
  ELSE IF ncols = 8 /\ Contains(flat, <<"(", "A", ")">>) /\ Contains(flat, <<"(", "B", ")">>)
    THEN "no_withdrawal"
  ELSE IF ncols = 10 /\ (Contains(flat, <<"(", "F", ")">>) \/ Contains(flat, <<"(", "F", " ">>))
    THEN "death_benefit"
  ELSE IF ncols = 10 /\ Contains(flat, <<"(", "1", ")">>) /\ Contains(flat, <<"(", "2", ")">>)
    THEN "withdrawal"
  ELSE IF ncols = 10 /\ Contains(flat, <<"(", "G", ")">>)
    THEN "death_benefit"
  ELSE "None"

\* the keyword tier with surrender-value tried before withdrawal
TierKeywordSurrenderFirst(nw_score, db_score, wd_score, ncols) ==
  IF nw_score >= 2 /\ 6 <= ncols /\ ncols <= 10 THEN "no_withdrawal"
  ELSE IF wd_score >= 2 /\ ncols >= 8 THEN "withdrawal"
  ELSE IF db_score >= 2 /\ ncols >= 8 THEN "death_benefit"
  ELSE "None"

TierKeyword(nw_score, db_score, wd_score, ncols) ==
  IF wd_score >= 2 /\ ncols >= 8 THEN "withdrawal"
  ELSE IF nw_score >= 2 /\ 6 <= ncols /\ ncols <= 10 THEN "no_withdrawal"
  ELSE IF db_score >= 2 /\ ncols >= 8 THEN "death_benefit"
  ELSE "None"

TierSingle(nw_score, db_score, wd_score, ncols) ==
  IF nw_score >= 1 /\ 6 <= ncols /\ ncols <= 10 /\ nw_score >= db_score THEN "no_withdrawal"
  ELSE IF db_score >= 1 /\ ncols >= 8 /\ wd_score = 0 THEN "death_benefit"
  ELSE IF wd_score >= 1 /\ ncols >= 8 THEN "withdrawal"
  ELSE "None"

\* the tiers with the keyword tier tried before the exact rules
IdentifyKeywordsFirst(header_rows, ncols) ==
  LET flat     == _get_table_header_text(header_rows)
      nw_score == KeywordScore(nw_keywords, flat)
      db_score == KeywordScore(db_keywords, flat)
      wd_score == KeywordScore(wd_keywords, flat)
      t1       == TierExact(flat, ncols)
      t2       == TierKeyword(nw_score, db_score, wd_score, ncols)
  IN  IF t2 # "None" THEN t2
      ELSE IF t1 # "None" THEN t1
      ELSE TierSingle(nw_score, db_score, wd_score, ncols)

\* 'no_withdrawal', 'death_benefit', 'withdrawal', or "None" for None
_identify_table_type(header_rows, ncols) ==
  LET flat     == _get_table_header_text(header_rows)
      nw_score == KeywordScore(nw_keywords, flat)
      db_score == KeywordScore(db_keywords, flat)
      wd_score == KeywordScore(wd_keywords, flat)
      t1       == TierExact(flat, ncols)
      t2       == TierKeyword(nw_score, db_score, wd_score, ncols)
  IN  IF t1 # "None" THEN t1
      ELSE IF t2 # "None" THEN t2
      ELSE TierSingle(nw_score, db_score, wd_score, ncols)

\* the row at 0-based index i starts the data: its first cell, decoded, cut at
\* the first line break, is a digit string
FirstCellNumeric(row) ==
  /\ row # <<>>
  /\ Truthy(row[1])
  /\ LET first_cell == Strip(decode_cid(row[1]))
     IN  first_cell # <<>> /\ IsDigit(Strip(Split(first_cell, "\n")[1]))

DefaultHeaderRows == 3

\* the index of the first data row, with no floor at one header row
DetectHeaderRowsNoFloor(table) ==
  IF \E i \in 1..Len(table) : FirstCellNumeric(table[i])
  THEN (CHOOSE k \in 1..Len(table) :
          FirstCellNumeric(table[k]) /\ \A j \in 1..(k - 1) : ~FirstCellNumeric(table[j])) - 1
  ELSE Min(DefaultHeaderRows, Len(table) - 1)

_detect_header_rows(table) ==
  IF \E i \in 1..Len(table) : FirstCellNumeric(table[i])
  THEN LET i == CHOOSE k \in 1..Len(table) :
                  FirstCellNumeric(table[k]) /\ \A j \in 1..(k - 1) : ~FirstCellNumeric(table[j])
       IN  Max(i - 1, 1)
  ELSE Min(DefaultHeaderRows, Len(table) - 1)

\* table[n:]
Drop(seq, n) == IF n < 0 THEN SubSeq(seq, Max(Len(seq) + n, 0) + 1, Len(seq))
                ELSE SubSeq(seq, n + 1, Len(seq))

\* seq[:n] for n >= 0
Take(seq, n) == SubSeq(seq, 1, Min(n, Len(seq)))

\* one sub-row per line of the first cell, no padding to the longest cell
ExpandRowByFirstCell(row) ==
  LET decoded     == [k \in 1..Len(row) |-> DecodeCell(row[k])]
      split_cells == [k \in 1..Len(row) |-> Split(decoded[k], "\n")]
      n_sub       == IF row = <<>> THEN 0 ELSE Len(split_cells[1])
  IN  [j \in 1..n_sub |->
         [k \in 1..Len(row) |->
            IF j <= Len(split_cells[k]) THEN Strip(split_cells[k][j]) ELSE <<>>]]

\* the sub-rows of one physical row
ExpandRow(row) ==
  LET decoded     == [k \in 1..Len(row) |-> DecodeCell(row[k])]
      split_cells == [k \in 1..Len(row) |-> Split(decoded[k], "\n")]
      n_sub       == MaxLen(split_cells)
  IN  [j \in 1..n_sub |->
         [k \in 1..Len(row) |->
            IF j <= Len(split_cells[k]) THEN Strip(split_cells[k][j]) ELSE <<>>]]

RECURSIVE ExpandAll(_)
ExpandAll(data_rows) ==
  IF data_rows = <<>> THEN <<>> ELSE ExpandRow(Head(data_rows)) \o ExpandAll(Tail(data_rows))

\* _expand_rows(table, header_rows); header_rows < 0 asks for auto-detection
_expand_rows(table, header_rows) ==
  LET h == IF header_rows < 0 THEN _detect_header_rows(table) ELSE header_rows
  IN  ExpandAll(Drop(table, h))

\* headers[j] after the merge of the header rows, j a 1-based column
RECURSIVE ColumnHeader(_, _, _)
ColumnHeader(table, nhead, j) ==
  IF nhead <= 0 THEN <<>>
  ELSE LET row  == table[nhead]
           rest == ColumnHeader(table, nhead - 1, j)
       IN  IF j <= Len(row) /\ Truthy(row[j])
           THEN rest \o <<" ">> \o Strip(decode_cid(row[j])) \o <<" ">> \o Strip(row[j])
           ELSE rest

\* any(kw in h_combined for kw in keywords)
AnyKw(h_combined, keywords) == \E i \in 1..Len(keywords) : Contains(h_combined, keywords[i])

\* a dict as a function on its keys
EmptyDict == [k \in {} |-> 0]
Put(d, k, v) == [x \in DOMAIN d \cup {k} |-> IF x = k THEN v ELSE d[x]]
PutLast(d, k, v) == Put(d, k, v)
PutNew(d, k, v) == IF k \in DOMAIN d THEN d ELSE Put(d, k, v)
GetDefault(d, k, default) == default
Get(d, k, default) == IF k \in DOMAIN d THEN d[k] ELSE default

\* the field a header names (the if/elif chain), "" when it names none
NwField(h_combined) ==
  LET NwPremiumKw ==
        << <<"U+7D2F", "U+79EF", "U+4FDD", "U+8D39">>,
           <<"U+7D2F", "U+7A4D", "U+4FDD", "U+8CBB">>,
           <<"c", "u", "m", "u", "l", "a", "t", "i", "v", "e">>,
           <<"p", "r", "e", "m", "i", "u", "m">>,
           <<"U+4FDD", "U+8D39">>,
           <<"U+4FDD", "U+8CBB">> >>
      NwGuaranteedKw ==
        << <<"(", "a", ")">>,
           <<"U+4FDD", "U+8BC1", "U+73B0", "U+91D1">>,
           <<"U+4FDD", "U+8B49", "U+73FE", "U+91D1">>,
           <<"g", "u", "a", "r", "a", "n", "t", "e", "e", "d">> >>
      NwBonusKw ==
        << <<"(", "b", ")">>,
           <<"U+590D", "U+5F52", "U+7EA2", "U+5229">>,
           <<"U+5FA9", "U+6B78", "U+7D05", "U+5229">>,
           <<"r", "e", "v", "e", "r", "s", "i", "o", "n", "a", "r", "y">> >>
      NwTerminalKw ==
        << <<"(", "c", ")">>,
           <<"U+7EC8", "U+671F", "U+7EA2", "U+5229">>,
           <<"U+7D42", "U+671F", "U+7D05", "U+5229">>,
           <<"t", "e", "r", "m", "i", "n", "a", "l">> >>
      NwSpecialKw ==
        << <<"#">>,
           <<"U+7279", "U+522B">>,
           <<"U+7279", "U+5225">>,
           <<"s", "p", "e", "c", "i", "a", "l">> >>
      NwTotalKw ==
        << <<"(", "e", ")">>,
           <<"U+9000", "U+4FDD", "U+603B", "U+989D">>,
           <<"U+9000", "U+4FDD", "U+7E3D", "U+984D">>,
           <<"t", "o", "t", "a", "l">>,
           <<"s", "u", "r", "r", "e", "n", "d", "e", "r">> >>
  IN
    IF AnyKw(h_combined, NwPremiumKw) THEN "cumulative_premium"
    ELSE IF AnyKw(h_combined, NwGuaranteedKw) THEN "guaranteed_cv"
    ELSE IF AnyKw(h_combined, NwBonusKw) THEN "reversionary_bonus"
    ELSE IF AnyKw(h_combined, NwTerminalKw) THEN "terminal_dividend"
    ELSE IF AnyKw(h_combined, NwSpecialKw) THEN "special_div"
    ELSE IF AnyKw(h_combined, NwTotalKw) THEN "total_surrender"
    ELSE ""

WdField(h_combined) ==
  LET WdAmountKw ==
        << <<"U+63D0", "U+53D6">>,
           <<"U+63D0", "U+9818">>,
           <<"w", "i", "t", "h", "d", "r", "a", "w", "a", "l">>,
           <<"U+6BCF", "U+5E74">> >>
      WdGuaranteedKw ==
        << <<"(", "a", ")">>,
           <<"U+4FDD", "U+8BC1">>,
           <<"U+4FDD", "U+8B49">>,
           <<"g", "u", "a", "r", "a", "n", "t", "e", "e", "d">> >>
      WdBonusKw ==
        << <<"(", "b", ")">>,
           <<"U+590D", "U+5F52">>,
           <<"U+5FA9", "U+6B78">>,
           <<"r", "e", "v", "e", "r", "s", "i", "o", "n", "a", "r", "y">> >>
      WdTerminalKw ==
        << <<"(", "c", ")">>,
           <<"U+7EC8", "U+671F">>,
           <<"U+7D42", "U+671F">>,
           <<"t", "e", "r", "m", "i", "n", "a", "l">> >>
      WdSpecialKw ==
        << <<"#">>,
           <<"U+7279", "U+522B">>,
           <<"U+7279", "U+5225">>,
           <<"s", "p", "e", "c", "i", "a", "l">> >>
      WdTotalKw ==
        << <<"U+603B", "U+989D">>,
           <<"U+7E3D", "U+984D">>,
           <<"t", "o", "t", "a", "l">> >>
  IN
    IF AnyKw(h_combined, WdAmountKw) THEN "withdrawal_amount"
    ELSE IF AnyKw(h_combined, WdGuaranteedKw) THEN "remaining_guaranteed"
    ELSE IF AnyKw(h_combined, WdBonusKw) THEN "remaining_bonus"
    ELSE IF AnyKw(h_combined, WdTerminalKw) THEN "remaining_terminal"
    ELSE IF AnyKw(h_combined, WdSpecialKw) THEN "remaining_special"
    ELSE IF AnyKw(h_combined, WdTotalKw) THEN "remaining_total"
    ELSE ""

\* the mapping after columns 0 .. idx (0-based) have been visited
RECURSIVE MapColumns(_, _, _, _)
MapColumns(table, nhead, idx, wd) ==
  IF idx < 0 THEN EmptyDict
  ELSE LET mapping    == MapColumns(table, nhead, idx - 1, wd)
           h          == ColumnHeader(table, nhead, idx + 1)
           h_combined == Lower(h) \o <<" ">> \o h
           field      == IF wd THEN WdField(h_combined) ELSE NwField(h_combined)
       IN  IF idx = 0 THEN Put(mapping, "year", idx)
           ELSE IF idx = 1 THEN Put(mapping, "age", idx)
           ELSE IF field # "" THEN PutNew(mapping, field, idx)
           ELSE mapping

_detect_nw_column_mapping(table, header_rows) ==
  MapColumns(table, Min(header_rows, Len(table)), MaxLen(table) - 1, FALSE)

_detect_wd_column_mapping(table, header_rows) ==
  MapColumns(table, Min(header_rows, Len(table)), MaxLen(table) - 1, TRUE)

\* -------------------------------------------------------------------------
\* Policy info extraction
\* -------------------------------------------------------------------------

CoverageWholeLife ==
  << "U+7EC8", "U+8EAB", " ", "W", "h", "o", "l", "e", " ", "L", "i", "f", "e" >>
PayOpenZh == <<"U+FF08">>
PayCloseZh == <<"U+5E74", "U+7F34", "U+8D39", "U+FF09">>
PayOpenEn == <<" ", "(">>
PayCloseEn == <<"-", "Y", "e", "a", "r", " ", "P", "a", "y", "m", "e", "n", "t", ")">>

\* str(n) for a natural number
RECURSIVE Dec(_)
Dec(n) == IF n < 10 THEN <<AsciiTable[n + 17]>> ELSE Dec(n \div 10) \o <<AsciiTable[(n % 10) + 17]>>

\* the info dict of _extract_policy_info before anything is detected
DefaultPolicyInfo ==
  [ product_name    |-> <<>>,
    product_name_en |-> <<>>,
    insurer         |-> <<"A", "I", "A">>,
    insured_name    |-> <<>>,
    age_at_issue    |-> 0,
    gender          |-> <<"M">>,
    currency        |-> <<"U", "S", "D">>,
    currency_symbol |-> <<"$">>,
    annual_premium  |-> 0,
    payment_years   |-> 5,
    total_premium   |-> 0,
    coverage_type   |-> CoverageWholeLife,
    plan_date       |-> <<>> ]

\* [decode_cid(str(c)).strip() if c else '' for c in row]
DecodeRow(row) == [k \in 1..Len(row) |-> DecodeCell(row[k])]

\* all_decoded_cells
RECURSIVE AllDecodedCells(_)
AllDecodedCells(rows) ==
  IF rows = <<>> THEN <<>> ELSE DecodeRow(Head(rows)) \o AllDecodedCells(Tail(rows))

PolicyCells(policy_tables) == AllDecodedCells(Concat(policy_tables))

\* cell.replace(' ', '')
NoSpaces(cell) == Filter(cell, {cell[i] : i \in 1..Len(cell)} \ {" "})

\* the first cell of first_row that can be a name, '' when there is none
NameOf(first_row) ==
  LET ok(cell) == cell # <<>> /\ ~IsDigit(NoSpaces(cell)) /\ cell # <<"-">>
  IN  IF \E i \in 1..Len(first_row) : ok(first_row[i])
      THEN first_row[CHOOSE i \in 1..Len(first_row) :
                       ok(first_row[i]) /\ \A j \in 1..(i - 1) : ~ok(first_row[j])]
      ELSE <<>>

MaxAge == 120

\* the age loop over first_row from cell k on: [exc |-> int() raised, age |-> found age or -1]
RECURSIVE AgeOf(_, _)
AgeOf(first_row, k) ==
  IF k > Len(first_row) THEN [exc |-> FALSE, age |-> 0 - 1]
  ELSE LET cell == Strip(first_row[k])
       IN  IF ~IsDigit(cell) THEN AgeOf(first_row, k + 1)
           ELSE IF ~IntOk(cell) THEN [exc |-> TRUE, age |-> 0 - 1]
           ELSE IF 0 <= IntOf(cell) /\ IntOf(cell) <= MaxAge
                THEN [exc |-> FALSE, age |-> IntOf(cell)]
                ELSE AgeOf(first_row, k + 1)

\* length of the match of [\d,]+(?:\.\d+)? at the start of s, 0 when there is none
RECURSIVE AmountRun(_)
AmountRun(s) ==
  IF s # <<>> /\ Head(s) \in AsciiDigits \cup {","} THEN 1 + AmountRun(Tail(s)) ELSE 0

AmountMatchLen(s) ==
  LET n == AmountRun(s)
      d == IF n >= 1 /\ n < Len(s) /\ s[n + 1] = "." THEN DigitRun(SubSeq(s, n + 2, Len(s))) ELSE 0
  IN  IF n = 0 THEN 0 ELSE IF d >= 1 THEN n + 1 + d ELSE n

\* re.findall(r'([\d,]+(?:\.\d+)?)', cell)
RECURSIVE FindAmounts(_)
FindAmounts(s) ==
  IF s = <<>> THEN <<>>
  ELSE LET m == AmountMatchLen(s)
       IN  IF m > 0 THEN <<SubSeq(s, 1, m)>> \o FindAmounts(SubSeq(s, m + 1, Len(s)))
           ELSE FindAmounts(Tail(s))

PremiumLo == 1000
PremiumHi == 1000000
PaymentYearsLo == 2
PaymentYearsHi == 30

\* the first amount in the plausible premium range, 0 when there is none
RECURSIVE FirstPremium(_)
FirstPremium(amounts) ==
  IF amounts = <<>> THEN 0
  ELSE LET val == clean_numeric(Head(amounts))
       IN  IF PremiumLo * Scale <= val /\ val <= PremiumHi * Scale THEN val
           ELSE FirstPremium(Tail(amounts))

\* re.match(r'^\d{1,2}$', cell.strip())
IsShortNumber(cell) ==
  LET c == Strip(cell)
  IN  Len(c) \in {1, 2} /\ \A i \in 1..Len(c) : c[i] \in AsciiDigits

\* the scan of all_decoded_cells for the premium and the payment years
RECURSIVE ScanCells(_, _)
ScanCells(cells, info) ==
  IF cells = <<>> THEN info
  ELSE LET cell  == Head(cells)
           prem  == FirstPremium(FindAmounts(cell))
           info1 == IF info.annual_premium = 0 /\ prem # 0
                    THEN [info EXCEPT !.annual_premium = prem] ELSE info
           py    == IntOf(Strip(cell))
           info2 == IF IsShortNumber(cell) /\ PaymentYearsLo <= py /\ py <= PaymentYearsHi
                    THEN [info1 EXCEPT !.payment_years = py] ELSE info1
       IN  ScanCells(Tail(cells), info2)

\* one pass of the loop over [page1_fitz_text, page1_decoded]
DetectFromText(info, text_source) ==
  LET VisionLifeZhS == <<"U+73AF", "U+5B87", "U+76C8", "U+6D3B">>
      VisionLifeZhT == <<"U+74B0", "U+5B87", "U+76C8", "U+6D3B">>
      VisionLifeName ==
        << "U+73AF", "U+5B87", "U+76C8", "U+6D3B", "U+50A8", "U+84C4", "U+4FDD", "U+9669",
           "U+8BA1", "U+5212" >>
      VisionLifeNameEn ==
        << "A", "I", "A", " ", "V", "i", "s", "i", "o", "n", " ", "L", "i", "f", "e", " ",
           "S", "a", "v", "i", "n", "g", "s", " ", "P", "l", "a", "n" >>
      FlexiZhS == <<"U+6D3B", "U+4EAB", "U+50A8", "U+84C4">>
      FlexiZhT == <<"U+6D3B", "U+4EAB", "U+5132", "U+84C4">>
      FlexiName == <<"U+6D3B", "U+4EAB", "U+50A8", "U+84C4", "U+4FDD", "U+9669", "U+8BA1", "U+5212">>
      FlexiNameEn ==
        << "A", "I", "A", " ", "F", "l", "e", "x", "i", " ", "S", "a", "v", "i", "n", "g",
           "s", " ", "P", "l", "a", "n" >>
      NavigatorZhS == <<"U+7231", "U+4F34", "U+822A">>
      NavigatorZhT == <<"U+611B", "U+4F34", "U+822A">>
      NavigatorName == <<"U+7231", "U+4F34", "U+822A", "U+4FDD", "U+9669", "U+8BA1", "U+5212">>
      NavigatorNameEn ==
        << "A", "I", "A", " ", "L", "o", "v", "e", " ", "N", "a", "v", "i", "g", "a", "t",
           "o", "r", " ", "P", "l", "a", "n" >>
      UsdZh == <<"U+7F8E", "U+5143">>
      HkdZh1 == <<"U+6E2F", "U+5143">>
      HkdZh2 == <<"U+6E2F", "U+5E63">>
      RmbZh == <<"U+4EBA", "U+6C11", "U+5E01">>
  IN
    LET has(w) == Contains(text_source, w)
        named  ==
          IF has(VisionLifeZhS) \/ has(VisionLifeZhT)
            THEN [info EXCEPT !.product_name = VisionLifeName, !.product_name_en = VisionLifeNameEn]
          ELSE IF has(FlexiZhS) \/ has(FlexiZhT)
            THEN [info EXCEPT !.product_name = FlexiName, !.product_name_en = FlexiNameEn]
          ELSE IF has(NavigatorZhS) \/ has(NavigatorZhT)
            THEN [info EXCEPT !.product_name = NavigatorName, !.product_name_en = NavigatorNameEn]
          ELSE info
    IN  IF has(<<"U", "S", "D">>) \/ has(UsdZh)
          THEN [named EXCEPT !.currency = <<"U", "S", "D">>, !.currency_symbol = <<"$">>]
        ELSE IF has(<<"H", "K", "D">>) \/ has(HkdZh1) \/ has(HkdZh2)
          THEN [named EXCEPT !.currency = <<"H", "K", "D">>, !.currency_symbol = <<"H", "K", "$">>]
        ELSE IF has(<<"R", "M", "B">>) \/ has(<<"C", "N", "Y">>) \/ has(RmbZh)
          THEN [named EXCEPT !.currency = <<"R", "M", "B">>, !.currency_symbol = <<"U+00A5">>]
        ELSE named

\* a faulty total: the derivation left out
TotalPremiumSkipped(info) == info

\* lines 642-644
TotalPremium(info) ==
  IF info.annual_premium > 0 /\ info.payment_years > 0
  THEN [info EXCEPT !.total_premium = info.annual_premium * info.payment_years]
  ELSE info

\* lines 646-649
NameWithPaymentYears(info) ==
  IF info.payment_years # 0 /\ info.product_name # <<>>
  THEN [info EXCEPT
          !.product_name    = @ \o PayOpenZh \o Dec(info.payment_years) \o PayCloseZh,
          !.product_name_en = @ \o PayOpenEn \o Dec(info.payment_years) \o PayCloseEn]
  ELSE info

\* does the age loop of _extract_policy_info raise ValueError
PolicyInfoRaises(policy_tables) ==
  policy_tables # <<>> /\ AgeOf(DecodeRow(policy_tables[1][1]), 1).exc

\* lines 572-607: the info after the policy tables have been read
PolicyFromTables(policy_tables) ==
  LET first_row == IF policy_tables # <<>> THEN DecodeRow(policy_tables[1][1]) ELSE <<>>
      name      == NameOf(first_row)
      age       == AgeOf(first_row, 1).age
      info1     == IF name # <<>> THEN [DefaultPolicyInfo EXCEPT !.insured_name = name]
                   ELSE DefaultPolicyInfo
      info2     == IF age >= 0 THEN [info1 EXCEPT !.age_at_issue = age] ELSE info1
  IN  ScanCells(PolicyCells(policy_tables), info2)

\* lines 619-651: the product and the currency from the two texts, the total
\* premium and the product name's suffix
PolicyFromText(info, page1_text, page1_fitz_text) ==
  NameWithPaymentYears(TotalPremium(
    DetectFromText(DetectFromText(info, page1_fitz_text), decode_cid(page1_text))))

\* _extract_policy_info on a document with a first page; page1_text is what
\* pages[0].extract_text() or '' gave, page1_fitz_text what the fitz path gave
\* ('' when that path failed)
_extract_policy_info(policy_tables, page1_text, page1_fitz_text) ==
  PolicyFromText(PolicyFromTables(policy_tables), page1_text, page1_fitz_text)

\* -------------------------------------------------------------------------
\* Record assembly
\* -------------------------------------------------------------------------

\* nw_rows / db_rows / wd_rows: every table expanded with auto header detection
RECURSIVE ExpandTables(_)
ExpandTables(tables) ==
  IF tables = <<>> THEN <<>>
  ELSE _expand_rows(Head(tables), 0 - 1) \o ExpandTables(Tail(tables))

\* the detector of the surrender-value or of the withdrawal tables on a table
DetectMapping(table, header_count, wd) ==
  IF wd THEN _detect_wd_column_mapping(table, header_count)
  ELSE _detect_nw_column_mapping(table, header_count)

\* if not mapping: mapping = detected
IfNotMapping(detected, later) == IF detected # EmptyDict THEN detected ELSE later

\* a faulty mapping: every table of the role replaces the mapping of the ones before
RECURSIVE LastMapping(_, _)
LastMapping(tables, wd) ==
  IF tables = <<>> THEN EmptyDict
  ELSE IfNotMapping(DetectMapping(tables[Len(tables)], _detect_header_rows(tables[Len(tables)]), wd),
                    LastMapping(SubSeq(tables, 1, Len(tables) - 1), wd))

\* the mapping kept by   if not mapping: mapping = detect(table, header_count)
RECURSIVE FirstMapping(_, _)
FirstMapping(tables, wd) ==
  IF tables = <<>> THEN EmptyDict
  ELSE IfNotMapping(DetectMapping(Head(tables), _detect_header_rows(Head(tables)), wd),
                    FirstMapping(Tail(tables), wd))

MinRowCells == 6

\* row[col].strip() if col < len(row) else ''   (col a 0-based index)
CellAt(row, col) == IF col < Len(row) THEN Strip(row[col + 1]) ELSE <<>>

\* clean_numeric(row[col]) if col < len(row) else 0.0
NumAt(row, col) == IF col < Len(row) THEN clean_numeric(row[col + 1]) ELSE 0

\* clean_numeric(row[col]) if 0 <= col < len(row) else clean_numeric(row[-1])
NumAtOrLast(row, col) ==
  IF col >= 0 /\ col < Len(row) THEN clean_numeric(row[col + 1]) ELSE clean_numeric(row[Len(row)])

\* the rows of the death-benefit lookup loop that reach int(year_str)
DbYearRows(db_rows) == {i \in 1..Len(db_rows) :
                          Len(db_rows[i]) >= MinRowCells /\ IsDigit(Strip(db_rows[i][1]))}

DbValue(row) ==
  LET db_val == clean_numeric(row[Len(row)])
  IN  IF db_val = 0 /\ Len(row) >= 2 THEN clean_numeric(row[Len(row) - 1]) ELSE db_val

\* db_by_year: a later row of a year replaces an earlier one
db_by_year(db_rows) ==
  LET years == {IntOf(Strip(db_rows[i][1])) : i \in DbYearRows(db_rows)}
      last(y) == CHOOSE i \in DbYearRows(db_rows) :
                   /\ IntOf(Strip(db_rows[i][1])) = y
                   /\ \A j \in DbYearRows(db_rows) : IntOf(Strip(db_rows[j][1])) = y => j <= i
  IN  [y \in years |-> DbValue(db_rows[last(y)])]

DbRaises(db_rows) == \E i \in DbYearRows(db_rows) : ~IntOk(Strip(db_rows[i][1]))

\* a faulty default: the surrender value alone
DeathBenefitSurrenderOnly(total_surrender, cumulative_premium) == total_surrender

\* the death benefit of a year with no (or a zero) entry in the lookup
DeathBenefitDefault(total_surrender, cumulative_premium) ==
  Max(total_surrender, cumulative_premium)

\* a faulty record builder: the death benefit under the key death_benefit
YearlyRecordRenamedKey(row, m, lookup, policy_info) ==
  [ year                  |-> IntOf(CellAt(row, Get(m, "year", 0))),
    age                   |-> policy_info.age_at_issue,
    cumulative_premium    |-> NumAt(row, Get(m, "cumulative_premium", 2)),
    guaranteed_cash_value |-> NumAt(row, Get(m, "guaranteed_cv", 3)),
    reversionary_bonus    |-> NumAt(row, Get(m, "reversionary_bonus", 4)),
    terminal_dividend     |-> NumAt(row, Get(m, "terminal_dividend", 5)),
    total_surrender_value |-> NumAtOrLast(row, Get(m, "total_surrender", 0 - 1)),
    death_benefit         |-> Get(lookup, IntOf(CellAt(row, Get(m, "year", 0))), 0) ]

\* the yearly record of one surrender-value row
YearlyRecordOf(row, m, lookup, policy_info) ==
  LET year     == IntOf(CellAt(row, Get(m, "year", 0)))
      age_str  == CellAt(row, Get(m, "age", 1))
      age      == IF IsDigit(age_str) THEN IntOf(age_str) ELSE policy_info.age_at_issue + year
      prem0    == NumAt(row, Get(m, "cumulative_premium", 2))
      guar     == NumAt(row, Get(m, "guaranteed_cv", 3))
      rev      == NumAt(row, Get(m, "reversionary_bonus", 4))
      term     == NumAt(row, Get(m, "terminal_dividend", 5))
      col_spec == Get(m, "special_div", 6)
      spec     == IF col_spec >= 0 /\ col_spec < Len(row) THEN clean_numeric(row[col_spec + 1]) ELSE 0
      total    == NumAtOrLast(row, Get(m, "total_surrender", 0 - 1))
      prem     == IF prem0 = 0 /\ policy_info.annual_premium > 0
                  THEN policy_info.annual_premium * Min(year, policy_info.payment_years)
                  ELSE prem0
      db       == Get(lookup, year, 0)
  IN  [ year                  |-> year,
        age                   |-> age,
        cumulative_premium    |-> prem,
        guaranteed_cash_value |-> guar,
        reversionary_bonus    |-> rev,
        terminal_dividend     |-> IF spec > 0 THEN term + spec ELSE term,
        total_surrender_value |-> total,
        total_death_benefit   |-> IF db = 0 THEN DeathBenefitDefault(total, prem) ELSE db ]

\* a row the record loop keeps: enough cells and a digit string for a year
IsYearRow(row, m) == Len(row) >= MinRowCells /\ IsDigit(CellAt(row, Get(m, "year", 0)))

\* int(year_str) or int(age_str) raises ValueError on the row
YearRowRaises(row, m) ==
  \/ ~IntOk(CellAt(row, Get(m, "year", 0)))
  \/ IsDigit(CellAt(row, Get(m, "age", 1))) /\ ~IntOk(CellAt(row, Get(m, "age", 1)))

\* the records of the loop over nw_rows, in the order of the rows
RECURSIVE YearlyRecords(_, _, _, _)
YearlyRecords(rows, m, lookup, policy_info) ==
  IF rows = <<>> THEN <<>>
  ELSE (IF IsYearRow(Head(rows), m)
        THEN <<YearlyRecordOf(Head(rows), m, lookup, policy_info)>> ELSE <<>>)
       \o YearlyRecords(Tail(rows), m, lookup, policy_info)

\* a warning: who appended it (the run), which message, and the values formatted in
Warning(r, kind, args) == [by |-> r, kind |-> kind, args |-> args]

\* lines 704-707 and 804-807: the mapping, when one was detected, is logged
MappingWarning(r, kind, m) == IF m # EmptyDict THEN <<Warning(r, kind, <<m>>)>> ELSE <<>>

\* lines 763-773: the warnings of an empty series
EmptySeriesWarnings(r, n_tables, nw_rows) ==
  <<Warning(r, "no_yearly", <<>>), Warning(r, "diagnostic", <<n_tables, Len(nw_rows)>>)>>
    \o (IF nw_rows # <<>> THEN <<Warning(r, "sample", <<Take(nw_rows[1], 5)>>)>> ELSE <<>>)

\* lines 763-775: the return of the series and the warnings appended on the way
YearlyReturn(r, n_tables, nw_rows, m, yearly) ==
  [exc |-> "None", yearly_data |-> yearly,
   warnings |-> MappingWarning(r, "nw_mapping", m)
                \o (IF yearly = <<>> THEN EmptySeriesWarnings(r, n_tables, nw_rows) ELSE <<>>)]

\* lines 674-775 (the mapping is logged only once the lookup is built), given the expanded rows and the column mapping
YearlyLoop(r, n_tables, nw_rows, m, db_rows, policy_info) ==
  IF DbRaises(db_rows) THEN [exc |-> "ValueError", yearly_data |-> <<>>, warnings |-> <<>>]
  ELSE IF \E i \in 1..Len(nw_rows) : IsYearRow(nw_rows[i], m) /\ YearRowRaises(nw_rows[i], m)
    THEN [exc |-> "ValueError", yearly_data |-> <<>>,
          warnings |-> MappingWarning(r, "nw_mapping", m)]
  ELSE YearlyReturn(r, n_tables, nw_rows, m,
                    YearlyRecords(nw_rows, m, db_by_year(db_rows), policy_info))

\* _extract_yearly_data: [exc, yearly_data, warnings appended]
_extract_yearly_data(r, nw_tables, db_tables, policy_info) ==
  YearlyLoop(r, Len(nw_tables), ExpandTables(nw_tables), FirstMapping(nw_tables, FALSE),
             ExpandTables(db_tables), policy_info)

\* the withdrawal record of one row
WithdrawalRecordOf(row, m) ==
  LET term     == NumAt(row, Get(m, "remaining_terminal", 7))
      col_spec == Get(m, "remaining_special", 8)
      spec     == IF col_spec >= 0 /\ col_spec < Len(row) THEN clean_numeric(row[col_spec + 1]) ELSE 0
  IN  [ year                           |-> IntOf(CellAt(row, Get(m, "year", 0))),
        withdrawal_amount              |-> NumAt(row, Get(m, "withdrawal_amount", 3)),
        remaining_surrender_guaranteed |-> NumAt(row, Get(m, "remaining_guaranteed", 5)),
        remaining_surrender_bonus      |-> NumAt(row, Get(m, "remaining_bonus", 6)),
        remaining_surrender_terminal   |-> IF spec > 0 THEN term + spec ELSE term,
        remaining_surrender_total      |-> NumAtOrLast(row, Get(m, "remaining_total", 0 - 1)) ]

RECURSIVE WithdrawalRecords(_, _)
WithdrawalRecords(rows, m) ==
  IF rows = <<>> THEN <<>>
  ELSE (IF IsYearRow(Head(rows), m) THEN <<WithdrawalRecordOf(Head(rows), m)>> ELSE <<>>)
       \o WithdrawalRecords(Tail(rows), m)

\* lines 804-847, given the expanded rows and the column mapping
WithdrawalLoop(r, wd_rows, m) ==
  IF \E i \in 1..Len(wd_rows) :
       IsYearRow(wd_rows[i], m) /\ ~IntOk(CellAt(wd_rows[i], Get(m, "year", 0)))
  THEN [exc |-> "ValueError", withdrawal_data |-> <<>>,
        warnings |-> MappingWarning(r, "wd_mapping", m)]
  ELSE [exc |-> "None", withdrawal_data |-> WithdrawalRecords(wd_rows, m),
        warnings |-> MappingWarning(r, "wd_mapping", m)]

\* _extract_withdrawal_data: [exc, withdrawal_data, warnings appended]
_extract_withdrawal_data(r, wd_tables) ==
  IF wd_tables = <<>> THEN [exc |-> "None", withdrawal_data |-> <<>>, warnings |-> <<>>]
  ELSE WithdrawalLoop(r, ExpandTables(wd_tables), FirstMapping(wd_tables, TRUE))

\* -------------------------------------------------------------------------
\* Classification of the tables of a document (_do_extract, step 1)
\* -------------------------------------------------------------------------

\* a table held in one of the collections: where it came from and its rows
TableAt(page_idx, k, rows) == [id |-> <<page_idx, k>>, rows |-> rows]

RowsOf(tables) == [i \in 1..Len(tables) |-> tables[i].rows]

PolicyTableMaxRows == 3
PreviewRows == 2
PreviewCols == 4
PreviewChars == 30
PreviewCells == 6

RECURSIVE NonEmpty(_)
NonEmpty(cells) ==
  IF cells = <<>> THEN <<>>
  ELSE (IF Head(cells) # <<>> THEN <<Head(cells)>> ELSE <<>>) \o NonEmpty(Tail(cells))

\* preview_cells[:6] of an unclassified table
HeaderPreview(table) ==
  LET rows  == Take(table, Min(PreviewRows, Len(table)))
      cells == Concat([i \in 1..Len(rows) |->
                 [k \in 1..Min(PreviewCols, Len(rows[i])) |->
                    Take(DecodeCell(rows[i][k]), PreviewChars)]])
  IN  Take(NonEmpty(cells), PreviewCells)

\* the collections and the warnings appended so far in the loop over the tables
NoTables == [nw |-> <<>>, db |-> <<>>, wd |-> <<>>, policy |-> <<>>, unclassified |-> <<>>,
             warnings |-> <<>>]

\* which collection the primary classifier's answer selects
PrimaryRole(table) ==
  _identify_table_type(Take(table, Min(_detect_header_rows(table), Len(table))), MaxLen(table))

\* is an unclassified table kept for the fallback classification
KeptForFallback(table) == Len(table) > PolicyTableMaxRows

\* lines 366-393: what the loop does with the primary classifier's answer for t
AssignRole(r, acc, page_idx, t, ttype) ==
  IF ttype = "no_withdrawal" THEN [acc EXCEPT !.nw = Append(@, t)]
  ELSE IF ttype = "death_benefit" THEN [acc EXCEPT !.db = Append(@, t)]
  ELSE IF ttype = "withdrawal" THEN [acc EXCEPT !.wd = Append(@, t)]
  ELSE [acc EXCEPT
          !.warnings = Append(@, Warning(r, "unclassified",
                         <<page_idx + 1, Len(t.rows), MaxLen(t.rows), HeaderPreview(t.rows)>>)),
          !.unclassified = IF KeptForFallback(t.rows) THEN Append(@, t) ELSE @]

\* the body of the loop over the tables of a page, for one table
ClassifyTable(r, acc, page_idx, k, table) ==
  IF Len(table) < 2 THEN acc
  ELSE IF page_idx = 0 /\ Len(table) <= PolicyTableMaxRows
    THEN [acc EXCEPT !.policy = Append(@, TableAt(page_idx, k, table))]
  ELSE AssignRole(r, acc, page_idx, TableAt(page_idx, k, table), PrimaryRole(table))

\* the loop over the tables page.extract_tables() returned, the first k of them done
RECURSIVE ClassifyTables(_, _, _, _, _)
ClassifyTables(r, acc, page_idx, tables, k) ==
  IF k = 0 THEN acc
  ELSE ClassifyTable(r, ClassifyTables(r, acc, page_idx, tables, k - 1), page_idx, k, tables[k])

\* -------------------------------------------------------------------------
\* Heuristic fallback (_do_extract, lines 395-427, and _heuristic_classify)
\* -------------------------------------------------------------------------

TableSize(t) == Len(t.rows) * MaxLen(t.rows)

\* insert t after every table at least as large: a stable sort, largest first
RECURSIVE InsertBySize(_, _)
InsertBySize(sorted, t) ==
  IF sorted = <<>> THEN <<t>>
  ELSE IF TableSize(Head(sorted)) >= TableSize(t) THEN <<Head(sorted)>> \o InsertBySize(Tail(sorted), t)
  ELSE <<t>> \o sorted

\* the unclassified tables left in the order of the document
KeepOrder(tables) == tables

RECURSIVE SortBySize(_)
SortBySize(tables) ==
  IF tables = <<>> THEN <<>>
  ELSE InsertBySize(SortBySize(SubSeq(tables, 1, Len(tables) - 1)), tables[Len(tables)])

NwMaxCols == 9
WdAmountCol == 3
SliceFrom == 5
SliceTo == 10

\* data_rows = [r for r in rows if r and r[0].strip().isdigit()]
DataRows(rows) ==
  LET IsData(r) == r # <<>> /\ IsDigit(Strip(r[1]))
  IN  SelectSeq(rows, IsData)

\* the answer with every data row inspected for a withdrawal amount
HeuristicRoleAllRows(data_rows) ==
  LET HasInt(r) == IntOk(Strip(r[1]))
  IN  IF data_rows = <<>> \/ SelectSeq(data_rows, HasInt) = <<>> THEN "None"
      ELSE IF Len(data_rows[1]) <= NwMaxCols THEN "no_withdrawal"
      ELSE IF \E i \in 1..Len(data_rows) :
                Len(data_rows[i]) > WdAmountCol
                  /\ clean_numeric(data_rows[i][WdAmountCol + 1]) > 0
        THEN "withdrawal"
      ELSE "death_benefit"

\* lines 512-544: the answer from the data rows (no rows gives no data rows)
HeuristicRole(data_rows) ==
  LET HasInt(r) == IntOk(Strip(r[1]))
      slice     == SubSeq(data_rows, SliceFrom + 1, Min(SliceTo, Len(data_rows)))
  IN  IF data_rows = <<>> \/ SelectSeq(data_rows, HasInt) = <<>> THEN "None"
      ELSE IF Len(data_rows[1]) <= NwMaxCols THEN "no_withdrawal"
      ELSE IF \E i \in 1..Len(slice) :
                Len(slice[i]) > WdAmountCol /\ clean_numeric(slice[i][WdAmountCol + 1]) > 0
        THEN "withdrawal"
      ELSE "death_benefit"

_heuristic_classify(table) == HeuristicRole(DataRows(_expand_rows(table, 0 - 1)))

\* lines 409-418: what the body of the loop does with the heuristic's answer for t
HeuristicAssign(r, acc, t, ttype) ==
  IF ttype = "no_withdrawal" /\ acc.nw = <<>>
    THEN [acc EXCEPT !.nw = Append(@, t),
                     !.warnings = Append(@, Warning(r, "heuristic_nw",
                                            <<Len(t.rows), MaxLen(t.rows)>>))]
  ELSE IF ttype = "death_benefit" /\ acc.db = <<>> THEN [acc EXCEPT !.db = Append(@, t)]
  ELSE IF ttype = "withdrawal" /\ acc.wd = <<>> THEN [acc EXCEPT !.wd = Append(@, t)]
  ELSE acc

\* the loop over the sorted unclassified tables
RECURSIVE HeuristicPass(_, _, _)
HeuristicPass(r, acc, tables) ==
  IF tables = <<>> THEN acc
  ELSE HeuristicPass(r, HeuristicAssign(r, acc, Head(tables),
                                        _heuristic_classify(Head(tables).rows)),
                     Tail(tables))

\* last resort: the largest unclassified table becomes the surrender-value table
LastResort(r, acc) ==
  IF acc.nw = <<>> /\ acc.unclassified # <<>>
  THEN LET largest == acc.unclassified[1]
       IN  [acc EXCEPT !.nw = Append(@, largest),
                       !.warnings = Append(@, Warning(r, "last_resort",
                                              <<Len(largest.rows), MaxLen(largest.rows)>>))]
  ELSE acc

\* lines 406-427, sorted being the collections after the sort of lines 401-404
HeuristicFallback(r, sorted) == LastResort(r, HeuristicPass(r, sorted, sorted.unclassified))

\* lines 429-433
Summary(r, acc) ==
  [acc EXCEPT !.warnings = Append(@, Warning(r, "summary",
                                     <<Len(acc.nw), Len(acc.db), Len(acc.wd)>>))]

\* lines 395-433: the fallback, then the classification summary
FallbackAndSummary(r, acc) ==
  Summary(r, IF acc.nw = <<>> /\ acc.unclassified # <<>>
             THEN HeuristicFallback(r, [acc EXCEPT
                    !.warnings = Append(@, Warning(r, "heuristic", <<>>)),
                    !.unclassified = SortBySize(@)])
             ELSE acc)

\* -------------------------------------------------------------------------
\* Premium and age from the yearly series (_do_extract, step 4)
\* -------------------------------------------------------------------------

\* a faulty stop: the 1-based position of the record instead of its 0-based index
StopIndexOneBased(yearly_data) ==
  IF \E i \in 1..(Len(yearly_data) - 1) :
       yearly_data[i + 1].cumulative_premium = yearly_data[i].cumulative_premium
  THEN 1 + CHOOSE i \in 1..(Len(yearly_data) - 1) :
             /\ yearly_data[i + 1].cumulative_premium = yearly_data[i].cumulative_premium
             /\ \A j \in 1..(i - 1) :
                  yearly_data[j + 1].cumulative_premium # yearly_data[j].cumulative_premium
  ELSE 0

\* the first i >= 1 (0-based) whose cumulative premium equals the one before, 0 when none
StopIndex(yearly_data) ==
  LET same(i) == yearly_data[i + 1].cumulative_premium = yearly_data[i].cumulative_premium
  IN  IF \E i \in 1..(Len(yearly_data) - 1) : same(i)
      THEN CHOOSE i \in 1..(Len(yearly_data) - 1) : same(i) /\ \A j \in 1..(i - 1) : ~same(j)
      ELSE 0

\* lines 442-451: the policy info after the override from the yearly series
PremiumOverride(policy_info, yearly_data) ==
  LET first_year_prem == yearly_data[1].cumulative_premium
      stop            == StopIndex(yearly_data)
      years           == IF stop > 0 THEN stop ELSE policy_info.payment_years
  IN  [policy_info EXCEPT !.annual_premium = first_year_prem,
                          !.payment_years  = years,
                          !.total_premium  = first_year_prem * years]

\* is the override made
OverrideApplies(yearly_data) == yearly_data # <<>> /\ yearly_data[1].cumulative_premium > 0

\* lines 458-461
AgeOverride(policy_info, yearly_data) ==
  IF yearly_data # <<>> /\ policy_info.age_at_issue = 0 /\ yearly_data[1].age > 0
  THEN [policy_info EXCEPT !.age_at_issue = yearly_data[1].age - 1]
  ELSE policy_info

\* lines 441-461: [policy_info, warnings appended]
AutoDetectFromYearly(r, policy_info, yearly_data) ==
  LET info == IF OverrideApplies(yearly_data) THEN PremiumOverride(policy_info, yearly_data)
              ELSE policy_info
  IN  [ policy_info |-> AgeOverride(info, yearly_data),
        warnings    |-> IF OverrideApplies(yearly_data)
                        THEN <<Warning(r, "auto_premium",
                                 <<info.annual_premium, info.payment_years, info.total_premium>>)>>
                        ELSE <<>> ]

\* -------------------------------------------------------------------------
\* The result record and the dataclasses it is loaded into (config.py)
\* -------------------------------------------------------------------------

Brand ==
  [ primary_color   |-> <<"#", "C", "8", "1", "0", "2", "E">>,
    secondary_color |-> <<"#", "F", "F", "F", "F", "F", "F">>,
    accent_color    |-> <<"#", "1", "A", "1", "A", "1", "A">>,
    logo_text       |-> <<"A", "I", "A">> ]

DisplaySettings ==
  [ highlight_years         |-> <<5, 10, 15, 20, 25, 30>>,
    highlight_ages          |-> <<65, 70, 75, 80, 85, 90, 95, 100>>,
    irr_decimal_places      |-> 2,
    currency_decimal_places |-> 0 ]

\* lines 466-486
AssembleResult(policy_info, yearly_data, withdrawal_data) ==
  LET base == [ policy_info      |-> policy_info,
                brand            |-> Brand,
                display_settings |-> DisplaySettings,
                yearly_data      |-> yearly_data ]
  IN  IF withdrawal_data # <<>>
      THEN [k \in DOMAIN base \cup {"withdrawal_data"} |->
              IF k = "withdrawal_data" THEN withdrawal_data ELSE base[k]]
      ELSE base

PolicyInfoFields ==
  { "product_name", "product_name_en", "insurer", "insured_name", "age_at_issue", "gender",
    "currency", "currency_symbol", "annual_premium", "payment_years", "total_premium",
    "coverage_type", "plan_date" }

YearlyRecordFields ==
  { "year", "age", "cumulative_premium", "guaranteed_cash_value", "reversionary_bonus",
    "terminal_dividend", "total_surrender_value", "total_death_benefit" }

WithdrawalRecordFields ==
  { "year", "withdrawal_amount", "remaining_surrender_guaranteed", "remaining_surrender_bonus",
    "remaining_surrender_terminal", "remaining_surrender_total" }

\* -------------------------------------------------------------------------
\* Documents: the tables a page can hold and the text of the first page
\* -------------------------------------------------------------------------

\* the small table of page 1: insured name, age, a null cell; premium, payment years
PolicyTable ==
  << << <<"L", "i">>, <<"3", "5">>, NoneCell >>,
     << <<"1", ",", "0", "0", "0">>, <<"2">> >> >>

\* a surrender-value table: 8 columns, (A) and (E) in the header, years 1 and 2
\* packed into one physical row, cumulative premium 1000, 2000, 2000, 2000
SurrenderTable ==
  << << <<"Y", "e", "a", "r">>, <<"A", "g", "e">>, <<"P", "r", "e", "m", "i", "u", "m">>,
        <<"(", "A", ")">>, <<"(", "B", ")">>, <<"(", "C", ")">>, <<"#">>,
        <<"(", "E", ")">> >>,
     << <<"1", "\n", "2">>, <<"3", "6", "\n", "3", "7">>,
        <<"1", ",", "0", "0", "0", "\n", "2", ",", "0", "0", "0">>,
        <<"0", "\n", "1", "0", "0">>, <<"0", "\n", "1", "0">>, <<"0", "\n", "5">>,
        <<"-", "\n", "5">>, <<"0", "\n", "1", "2", "0">> >>,
     << <<"3">>, <<"3", "8">>, <<"2", ",", "0", "0", "0">>, <<"2", "0", "0">>,
        <<"2", "0">>, <<"1", "0">>, <<"-">>, <<"2", "3", "0">> >>,
     << <<"4">>, <<"3", "9">>, <<"2", ",", "0", "0", "0">>, <<"3", "0", "0">>,
        <<"3", "0">>, <<"1", "5">>, <<"5">>, <<"3", "5", "0">> >> >>

\* a second surrender-value table: (A) and (B), years out of order and overlapping
\* the first table, premium and age columns blank
SurrenderTable2 ==
  << << <<"Y", "e", "a", "r">>, <<"A", "g", "e">>, <<"P", "a", "i", "d">>,
        <<"(", "A", ")">>, <<"(", "B", ")">>, <<"(", "C", ")">>, <<"x">>,
        <<"S", "u", "m">> >>,
     << <<"2">>, <<"-">>, <<"-">>, <<"1", "0", "0">>, <<"1", "0">>, <<"5">>, <<"-">>,
        <<"1", "1", "5">> >>,
     << <<"1">>, <<"-">>, <<"-">>, <<"0">>, <<"0">>, <<"0">>, <<"-">>, <<"0">> >>,
     << <<"3">>, <<"-">>, <<"-">>, <<"2", "0", "0">>, <<"2", "0">>, <<"1", "0">>, <<"-">>,
        <<"2", "3", "0">> >> >>

\* a death-benefit table: 10 columns, (F) in the header; no row for year 2, and the
\* last column of year 4 is zero
DeathTable ==
  << << <<"Y", "e", "a", "r">>, <<"A", "g", "e">>, <<"x">>, <<"x">>, <<"x">>, <<"x">>,
        <<"x">>, <<"x">>, <<"(", "J", ")">>, <<"(", "F", ")">> >>,
     << <<"1">>, <<"3", "6">>, <<"0">>, <<"0">>, <<"0">>, <<"0">>, <<"0">>, <<"0">>,
        <<"0">>, <<"5", ",", "0", "0", "0">> >>,
     << <<"3">>, <<"3", "8">>, <<"0">>, <<"0">>, <<"0">>, <<"0">>, <<"0">>, <<"0">>,
        <<"0">>, <<"6", ",", "0", "0", "0">> >>,
     << <<"4">>, <<"3", "9">>, <<"0">>, <<"0">>, <<"0">>, <<"0">>, <<"0">>, <<"0">>,
        <<"7", ",", "0", "0", "0">>, <<"0">> >> >>

\* a withdrawal table: 10 columns, (1) and (2) in the header, year 2 twice
WithdrawalTable ==
  << << <<"Y", "e", "a", "r">>, <<"A", "g", "e">>, <<"(", "1", ")">>,
        <<"W", "i", "t", "h", "d", "r", "a", "w", "a", "l">>, <<"(", "2", ")">>,
        <<"(", "A", ")">>, <<"(", "B", ")">>, <<"(", "C", ")">>, <<"#">>,
        <<"T", "o", "t", "a", "l">> >>,
     << <<"1">>, <<"3", "6">>, <<"0">>, <<"0">>, <<"0">>, <<"1", "0", "0">>, <<"1", "0">>,
        <<"5">>, <<"-">>, <<"1", "1", "5">> >>,
     << <<"2">>, <<"3", "7">>, <<"0">>, <<"5", "0">>, <<"0">>, <<"8", "0">>, <<"8">>,
        <<"4">>, <<"1">>, <<"9", "3">> >>,
     << <<"2">>, <<"3", "7">>, <<"0">>, <<"6", "0">>, <<"0">>, <<"7", "0">>, <<"7">>,
        <<"3">>, <<"-">>, <<"8", "0">> >> >>

\* a 10-column table no header rule or keyword recognises
UnknownTable10 ==
  << << <<"C", "o", "l">>, <<"C", "o", "l">>, <<"C", "o", "l">>, <<"C", "o", "l">>,
        <<"C", "o", "l">>, <<"C", "o", "l">>, <<"C", "o", "l">>, <<"C", "o", "l">>,
        <<"C", "o", "l">>, <<"C", "o", "l">> >>,
     << <<"1">>, <<"3", "6">>, <<"0">>, <<"0">>, <<"0">>, <<"0">>, <<"0">>, <<"0">>,
        <<"0">>, <<"9", "0", "0">> >>,
     << <<"2">>, <<"3", "7">>, <<"0">>, <<"0">>, <<"0">>, <<"0">>, <<"0">>, <<"0">>,
        <<"0">>, <<"9", "5", "0">> >>,
     << <<"3">>, <<"3", "8">>, <<"0">>, <<"0">>, <<"0">>, <<"0">>, <<"0">>, <<"0">>,
        <<"0">>, <<"9", "9", "0">> >> >>

\* an 8-column table no header rule or keyword recognises
UnknownTable8 ==
  << << <<"C", "o", "l">>, <<"C", "o", "l">>, <<"C", "o", "l">>, <<"C", "o", "l">>,
        <<"C", "o", "l">>, <<"C", "o", "l">>, <<"C", "o", "l">>, <<"C", "o", "l">> >>,
     << <<"1">>, <<"3", "6">>, <<"5", "0", "0">>, <<"0">>, <<"0">>, <<"0">>, <<"-">>,
        <<"0">> >>,
     << <<"2">>, <<"3", "7">>, <<"1", ",", "0", "0", "0">>, <<"1", "0">>, <<"1">>, <<"1">>,
        <<"-">>, <<"1", "2">> >>,
     << <<"3">>, <<"3", "8">>, <<"1", ",", "5", "0", "0">>, <<"2", "0">>, <<"2">>, <<"2">>,
        <<"-">>, <<"2", "4">> >> >>

\* a surrender-value table whose second year is printed as a superscript digit
SuperscriptTable ==
  << << <<"Y", "e", "a", "r">>, <<"A", "g", "e">>, <<"P", "r", "e", "m", "i", "u", "m">>,
        <<"(", "A", ")">>, <<"(", "B", ")">>, <<"(", "C", ")">>, <<"#">>,
        <<"(", "E", ")">> >>,
     << <<"1">>, <<"3", "6">>, <<"1", ",", "0", "0", "0">>, <<"0">>, <<"0">>, <<"0">>,
        <<"-">>, <<"0">> >>,
     << <<"U+00B2">>, <<"3", "7">>, <<"2", ",", "0", "0", "0">>, <<"1", "0", "0">>,
        <<"1", "0">>, <<"5">>, <<"-">>, <<"1", "1", "5">> >>,
     << <<"3">>, <<"3", "8">>, <<"3", ",", "0", "0", "0">>, <<"2", "0", "0">>,
        <<"2", "0">>, <<"1", "0">>, <<"-">>, <<"2", "3", "0">> >> >>

\* the tables the pages of a document are drawn from, a page being a sequence of
\* indexes into this library
TableLib ==
  << PolicyTable, SurrenderTable, SurrenderTable2, DeathTable, WithdrawalTable,
     UnknownTable10, UnknownTable8, SuperscriptTable >>

TableIds == 1..Len(TableLib)

IndexOf(table) == CHOOSE i \in TableIds : TableLib[i] = table

\* page.extract_tables() of a page holding the tables ids
ExtractTables(ids) == [i \in 1..Len(ids) |-> TableLib[ids[i]]]

\* first-page text naming a product and a currency
ProductText == <<"U+73AF", "U+5B87", "U+76C8", "U+6D3B", " ", "H", "K", "D">>

TextLib == { <<>>, ProductText }

\* the sequences over S of length at most n
RECURSIVE SeqsUpTo(_, _)
SeqsUpTo(S, n) ==
  IF n <= 0 THEN { <<>> }
  ELSE LET shorter == SeqsUpTo(S, n - 1)
       IN  shorter \cup { Append(q, x) : q \in {p \in shorter : Len(p) = n - 1}, x \in S }

\* -------------------------------------------------------------------------
\* Extraction runs: AIAPDFExtractor(pdf_path).extract(), as analyze() in
\* web/app.py and main() in src/extract.py run it
\* -------------------------------------------------------------------------

MaxRuns == 2
MaxPages == 2
MaxTables == 2

Runs == 1..MaxRuns

\* pdfplumber.open() raises instead of giving a page count
Unopenable == 0 - 1

None == <<>>

VARIABLES
  pc,            \* where each run is
  extractors,    \* the AIAPDFExtractor objects: [warnings, _pdf]
  self,          \* the extractor object of each run, 0 before it is constructed
  openHandles,   \* the document handles that are open: <<run that opened it, library>>
  numPages,      \* len(self._pdf.pages) of the run's document, Unopenable if it does not open
  page_idx,      \* the page the classification loop is at
  seen,          \* how many tables the pages read so far held
  tables,        \* nw_tables, db_tables, wd_tables, policy_tables, unclassified_tables
  policy_info, yearly_data, withdrawal_data,
  exc,           \* the exception propagating out of _do_extract, "None" if none
  result,        \* the dict _do_extract returned
  outcome,       \* "returned" or "raised" once extract() is over
  call,          \* a call of one of the module's functions on its own: [fn, its arguments]
  ret            \* what that call returned: [done |-> FALSE] until it has

\* the web application (web/app.py)
VARIABLES
  APP_PASSWORD,  \* os.environ.get('APP_PASSWORD', ''), read once when the module is loaded
  secret_key,    \* app.secret_key, the key Flask signs and verifies session cookies with
  session,       \* the session cookie each client holds: [authenticated, key, issuer]
                 \* with the key it is signed with and who made it
  _tasks,        \* task_id -> [dir, excel_path, html_path, created_at]
  _tasks_lock,   \* TRUE while a thread is inside a "with _tasks_lock" block that spans steps
  disk,          \* the task directories that exist, each with the names of its files
  now,           \* time.time(), in seconds since the application started
  issued,        \* how many task ids and directories uuid4 and mkdtemp have given out
  handler,       \* the request each worker thread is serving
  cleaner        \* the cleanup thread: [pc, now, expired]

webVars ==
  << APP_PASSWORD, secret_key, session, _tasks, _tasks_lock, disk, now, issued, handler, cleaner >>

vars == << pc, extractors, self, openHandles, numPages, page_idx, seen, tables,
           policy_info, yearly_data, withdrawal_data, exc, result, outcome, call, ret,
           webVars >>

\* no function is being called on its own
NoCall == [fn |-> "none"]
Pending == [done |-> FALSE]

nw_tables(r) == tables[r].nw
db_tables(r) == tables[r].db
wd_tables(r) == tables[r].wd
policy_tables(r) == tables[r].policy
unclassified_tables(r) == tables[r].unclassified

\* self.warnings of a run
warnings(r) == extractors[self[r]].warnings

EmptyCollections == [nw |-> <<>>, db |-> <<>>, wd |-> <<>>, policy |-> <<>>, unclassified |-> <<>>]

Collections(acc) ==
  [nw |-> acc.nw, db |-> acc.db, wd |-> acc.wd, policy |-> acc.policy,
   unclassified |-> acc.unclassified]

WithWarnings(t) ==
  [nw |-> t.nw, db |-> t.db, wd |-> t.wd, policy |-> t.policy,
   unclassified |-> t.unclassified, warnings |-> <<>>]

\* no run has started
Idle ==
  /\ pc = [r \in Runs |-> "idle"]
  /\ extractors = <<>>
  /\ self = [r \in Runs |-> 0]
  /\ openHandles = {}
  /\ numPages = [r \in Runs |-> 0]
  /\ page_idx = [r \in Runs |-> 0]
  /\ seen = [r \in Runs |-> 0]
  /\ tables = [r \in Runs |-> EmptyCollections]
  /\ policy_info = [r \in Runs |-> EmptyDict]
  /\ yearly_data = [r \in Runs |-> <<>>]
  /\ withdrawal_data = [r \in Runs |-> <<>>]
  /\ exc = [r \in Runs |-> "None"]
  /\ result = [r \in Runs |-> EmptyDict]
  /\ outcome = [r \in Runs |-> "none"]

\* worker threads serving requests, browsers holding a session cookie, the task ids
\* uuid4 gives out, and the seconds the clock runs past the first expiry
MaxWorkers == 2
MaxClients == 1
MaxTasks == 1
MaxSeconds == 1

Workers == 1..MaxWorkers
Clients == 1..MaxClients
TaskIds == 1..MaxTasks

NoPassword == ""

\* os.environ.get('SECRET_KEY', 'dev-key-change-in-production')
DevKey == "dev-key-change-in-production"
KeyOf(environ) == IF environ.SECRET_KEY = "None" THEN DevKey ELSE environ.SECRET_KEY

\* the environment with neither variable set
NoEnviron == [APP_PASSWORD |-> NoPassword, SECRET_KEY |-> "None"]

\* no cookie; the cookie login() gives out, signed with the application's key; the
\* cookie a client signs itself with a key it knows
NoSession == [authenticated |-> FALSE, key |-> "None", issuer |-> "none"]
Issued(key) == [authenticated |-> TRUE, key |-> key, issuer |-> "login"]
Forged(key) == [authenticated |-> TRUE, key |-> key, issuer |-> "client"]

NoTask == [dir |-> 0]
NoRequest == [route |-> "none"]

\* a worker serving no request; cookie is the session cookie the request came with
IdleHandler ==
  [pc |-> "idle", client |-> 0, cookie |-> NoSession, request |-> NoRequest, task_id |-> 0,
   task |-> NoTask, response |-> "none"]
Sleeping == [pc |-> "sleeping", now |-> 0, expired |-> {}]

\* the application as it is once the module is loaded: no session is authenticated,
\* no task is stored, the cleanup thread is started and asleep
Loaded(environs) ==
  /\ \E environ \in environs :
       /\ APP_PASSWORD = environ.APP_PASSWORD
       /\ secret_key = KeyOf(environ)
  /\ session = [c \in Clients |-> NoSession]
  /\ _tasks = EmptyDict
  /\ _tasks_lock = FALSE
  /\ disk = EmptyDict
  /\ now = 0
  /\ issued = 0
  /\ handler = [h \in Workers |-> IdleHandler]
  /\ cleaner = Sleeping

Init == Idle /\ call = NoCall /\ ret = Pending /\ Loaded({NoEnviron})

\* a faulty construction: one extractor object kept and handed to every run
SharedObject(heap) == 1

\* the object a constructor call returns: a new one
NewObject(heap) == Len(heap) + 1

\* AIAPDFExtractor(pdf_path): __init__ gives the object its own warnings list
Construct(r) ==
  /\ pc[r] = "idle"
  /\ LET o     == NewObject(extractors)
         fresh == [warnings |-> <<>>, _pdf |-> None]
     IN  /\ self' = [self EXCEPT ![r] = o]
         /\ extractors' = IF o > Len(extractors) THEN Append(extractors, fresh)
                          ELSE [extractors EXCEPT ![o] = fresh]
  /\ pc' = [pc EXCEPT ![r] = "constructed"]
  /\ UNCHANGED << call, ret, webVars >>
  /\ UNCHANGED << openHandles, numPages, page_idx, seen, tables, policy_info, yearly_data,
                  withdrawal_data, exc, result, outcome >>

\* a faulty log: the new warnings take the place of the old ones
ReplaceWarnings(r, ws) == [extractors EXCEPT ![self[r]].warnings = ws]

\* self.warnings.append(...) for each of ws, by run r
AppendWarnings(r, ws) == [extractors EXCEPT ![self[r]].warnings = @ \o ws]

\* extract, line 333: self._pdf = pdfplumber.open(self.pdf_path)
Open(r, pageCounts) ==
  /\ pc[r] = "constructed"
  /\ \E n \in pageCounts :
       /\ numPages' = [numPages EXCEPT ![r] = n]
       /\ IF n = Unopenable
          THEN /\ exc' = [exc EXCEPT ![r] = "OpenError"]
               /\ outcome' = [outcome EXCEPT ![r] = "raised"]
               /\ pc' = [pc EXCEPT ![r] = "done"]
               /\ UNCHANGED << extractors, openHandles >>
          ELSE /\ extractors' = [extractors EXCEPT ![self[r]]._pdf = <<r, "pdfplumber">>]
               /\ openHandles' = openHandles \cup { <<r, "pdfplumber">> }
               /\ pc' = [pc EXCEPT ![r] = "classify"]
               /\ UNCHANGED << exc, outcome >>
  /\ UNCHANGED << call, ret, webVars >>
  /\ UNCHANGED << self, page_idx, seen, tables, policy_info, yearly_data, withdrawal_data,
                  result >>

\* _do_extract, lines 348-393, for one page; page names the tables the page holds
ClassifyPage(r, pages) ==
  /\ pc[r] = "classify"
  /\ page_idx[r] < numPages[r]
  /\ \E page \in pages :
       \E acc \in { ClassifyTables(r, WithWarnings(tables[r]), page_idx[r],
                                   ExtractTables(page), Len(page)) } :
           /\ tables' = [tables EXCEPT ![r] = Collections(acc)]
           /\ extractors' = AppendWarnings(r, acc.warnings)
           /\ seen' = [seen EXCEPT ![r] = @ + Len(page)]
  /\ page_idx' = [page_idx EXCEPT ![r] = @ + 1]
  /\ UNCHANGED << call, ret, webVars >>
  /\ UNCHANGED << pc, self, openHandles, numPages, policy_info, yearly_data, withdrawal_data,
                  exc, result, outcome >>

\* _do_extract, lines 395-433, once the pages are exhausted
Fallback(r) ==
  /\ pc[r] = "classify"
  /\ page_idx[r] = numPages[r]
  /\ \E acc \in { FallbackAndSummary(r, WithWarnings(tables[r])) } :
         /\ tables' = [tables EXCEPT ![r] = Collections(acc)]
         /\ extractors' = AppendWarnings(r, acc.warnings)
  /\ pc' = [pc EXCEPT ![r] = "policy"]
  /\ UNCHANGED << call, ret, webVars >>
  /\ UNCHANGED << self, openHandles, numPages, page_idx, seen, policy_info, yearly_data,
                  withdrawal_data, exc, result, outcome >>

\* what the alternate text path (lines 610-617) can do: fitz cannot be imported or
\* cannot open the file; it opens the file and get_text() raises, so that
\* doc.close() is skipped; or it gives the text of the first page and closes
FitzOutcomes ==
  { [kind |-> "unavailable", text |-> <<>>], [kind |-> "text_error", text |-> <<>>] }
    \cup { [kind |-> "ok", text |-> t] : t \in TextLib }

\* the fitz handles left open by the alternate text path
FitzLeft(r, fz) == IF fz.kind = "text_error" THEN { <<r, "fitz">> } ELSE {}

\* _do_extract, line 436: policy_info = self._extract_policy_info(policy_tables)
PolicyInfo(r, texts, fitz) ==
  /\ pc[r] = "policy"
  /\ IF numPages[r] = 0
     THEN \* self._pdf.pages[0] raises IndexError
          /\ exc' = [exc EXCEPT ![r] = "IndexError"]
          /\ pc' = [pc EXCEPT ![r] = "finally"]
          /\ UNCHANGED << policy_info, openHandles >>
     ELSE IF PolicyInfoRaises(RowsOf(policy_tables(r)))
     THEN /\ exc' = [exc EXCEPT ![r] = "ValueError"]
          /\ pc' = [pc EXCEPT ![r] = "finally"]
          /\ UNCHANGED << policy_info, openHandles >>
     ELSE \E info \in { PolicyFromTables(RowsOf(policy_tables(r))) } :
          \E page1_text \in texts, fz \in fitz :
          /\ policy_info' = [policy_info EXCEPT ![r] = PolicyFromText(info, page1_text, fz.text)]
          /\ openHandles' = openHandles \cup FitzLeft(r, fz)
          /\ pc' = [pc EXCEPT ![r] = "yearly"]
          /\ UNCHANGED exc
  /\ UNCHANGED << call, ret, webVars >>
  /\ UNCHANGED << extractors, self, numPages, page_idx, seen, tables, yearly_data,
                  withdrawal_data, result, outcome >>

\* _do_extract, line 439
YearlyData(r) ==
  /\ pc[r] = "yearly"
  /\ \E res \in { _extract_yearly_data(r, RowsOf(nw_tables(r)), RowsOf(db_tables(r)),
                                         policy_info[r]) } :
         /\ extractors' = AppendWarnings(r, res.warnings)
         /\ yearly_data' = [yearly_data EXCEPT ![r] = res.yearly_data]
         /\ exc' = [exc EXCEPT ![r] = res.exc]
         /\ pc' = [pc EXCEPT ![r] = IF res.exc = "None" THEN "autodetect" ELSE "finally"]
  /\ UNCHANGED << call, ret, webVars >>
  /\ UNCHANGED << self, openHandles, numPages, page_idx, seen, tables, policy_info,
                  withdrawal_data, result, outcome >>

\* _do_extract, lines 441-461
AutoDetect(r) ==
  /\ pc[r] = "autodetect"
  /\ \E res \in { AutoDetectFromYearly(r, policy_info[r], yearly_data[r]) } :
         /\ policy_info' = [policy_info EXCEPT ![r] = res.policy_info]
         /\ extractors' = AppendWarnings(r, res.warnings)
  /\ pc' = [pc EXCEPT ![r] = "withdrawal"]
  /\ UNCHANGED << call, ret, webVars >>
  /\ UNCHANGED << self, openHandles, numPages, page_idx, seen, tables, yearly_data,
                  withdrawal_data, exc, result, outcome >>

\* _do_extract, lines 463-486
Assemble(r) ==
  /\ pc[r] = "withdrawal"
  /\ \E res \in { _extract_withdrawal_data(r, RowsOf(wd_tables(r))) } :
         /\ extractors' = AppendWarnings(r, res.warnings)
         /\ withdrawal_data' = [withdrawal_data EXCEPT ![r] = res.withdrawal_data]
         /\ exc' = [exc EXCEPT ![r] = res.exc]
         /\ result' = [result EXCEPT ![r] =
                         IF res.exc = "None"
                         THEN AssembleResult(policy_info[r], yearly_data[r], res.withdrawal_data)
                         ELSE @]
  /\ pc' = [pc EXCEPT ![r] = "finally"]
  /\ UNCHANGED << call, ret, webVars >>
  /\ UNCHANGED << self, openHandles, numPages, page_idx, seen, tables, policy_info,
                  yearly_data, outcome >>

\* the handles open after self._pdf.close()
CloseHandle(handles, handle) == handles \ { handle }

\* extract, lines 336-338: the finally clause, then the return or the re-raise
Finally(r) ==
  /\ pc[r] = "finally"
  /\ openHandles' = CloseHandle(openHandles, extractors[self[r]]._pdf)
  /\ extractors' = [extractors EXCEPT ![self[r]]._pdf = None]
  /\ outcome' = [outcome EXCEPT ![r] = IF exc[r] = "None" THEN "returned" ELSE "raised"]
  /\ pc' = [pc EXCEPT ![r] = "done"]
  /\ UNCHANGED << call, ret, webVars >>
  /\ UNCHANGED << self, numPages, page_idx, seen, tables, policy_info, yearly_data,
                  withdrawal_data, exc, result >>

\* one run on its own, over documents of up to MaxPages pages and MaxTables tables
SoloRuns == {1}

Next ==
  \E r \in SoloRuns :
    \/ Construct(r)
    \/ Open(r, Unopenable..MaxPages)
    \/ ClassifyPage(r, SeqsUpTo(TableIds, MaxTables - seen[r]))
    \/ Fallback(r)
    \/ PolicyInfo(r, TextLib, FitzOutcomes)
    \/ YearlyData(r)
    \/ AutoDetect(r)
    \/ Assemble(r)
    \/ Finally(r)

Spec == Init /\ [][Next]_vars

\* MaxRuns runs at once, as concurrent requests make them, each over a document of
\* at most one page holding at most one table, with no text on the page
ConcPageCounts == { Unopenable, 0, 1 }
ConcPages == { <<>>, <<IndexOf(UnknownTable8)>> }
ConcTexts == { <<>> }
ConcFitz == { [kind |-> "unavailable", text |-> <<>>] }

NextConc ==
  \E r \in Runs :
    \/ Construct(r)
    \/ Open(r, ConcPageCounts)
    \/ ClassifyPage(r, ConcPages)
    \/ Fallback(r)
    \/ PolicyInfo(r, ConcTexts, ConcFitz)
    \/ YearlyData(r)
    \/ AutoDetect(r)
    \/ Assemble(r)
    \/ Finally(r)

SpecConc == Init /\ [][NextConc]_vars

\* -------------------------------------------------------------------------
\* The module's functions called on their own, each on one argument drawn from a
\* bounded set
\* -------------------------------------------------------------------------

runVars == << pc, extractors, self, openHandles, numPages, page_idx, seen, tables,
              policy_info, yearly_data, withdrawal_data, exc, result, outcome >>

Returns(value) == [done |-> TRUE, value |-> value]

\* the pieces a text is put together from: what is written and what it decodes to.
\* Escapes 36, 3 and 97 give codes 65, 32 and 126; 2 and 98 give 31 and 127, outside
\* the printable range; an escape with no digits is no escape.
Pieces ==
  { [text |-> <<"a">>, decoded |-> <<"a">>],
    [text |-> <<"(">>, decoded |-> <<"(">>],
    [text |-> <<"U+4FDD">>, decoded |-> <<"U+4FDD">>],
    [text |-> <<"(", "c", "i", "d", ":", ")">>, decoded |-> <<"(", "c", "i", "d", ":", ")">>],
    [text |-> <<"(", "c", "i", "d", ":", "3", "6", ")">>, decoded |-> <<"A">>],
    [text |-> <<"(", "c", "i", "d", ":", "3", ")">>, decoded |-> <<" ">>],
    [text |-> <<"(", "c", "i", "d", ":", "9", "7", ")">>, decoded |-> <<"~">>],
    [text |-> <<"(", "c", "i", "d", ":", "2", ")">>, decoded |-> <<>>],
    [text |-> <<"(", "c", "i", "d", ":", "9", "8", ")">>, decoded |-> <<>>] }

MaxPieces == 3

TextOf(pieces) == Concat([i \in 1..Len(pieces) |-> pieces[i].text])

DecodeCalls == { [fn |-> "decode_cid", pieces |-> ps] : ps \in SeqsUpTo(Pieces, MaxPieces) }

CallDecodeCid ==
  /\ call.fn = "decode_cid"
  /\ ~ret.done
  /\ ret' = Returns(decode_cid(TextOf(call.pieces)))
  /\ UNCHANGED << runVars, call, webVars >>

\* the physical rows a table is put together from: the cells, whether the first cell
\* starts the data (a digit string once decoded and cut at its first line break), and
\* the sub-rows the row unpacks to. (cid:20) decodes to "1".
HeaderRow ==
  [cells |-> << <<"Y", "e", "a", "r">>, <<"A", "g", "e">> >>, numeric |-> FALSE,
   expanded |-> << << <<"Y", "e", "a", "r">>, <<"A", "g", "e">> >> >>]

PackedRow ==
  [cells |-> << <<"1", "\n", "2">>, <<"a">> >>, numeric |-> TRUE,
   expanded |-> << << <<"1">>, <<"a">> >>, << <<"2">>, <<>> >> >>]

NullFirstRow ==
  [cells |-> << NoneCell, <<"x", " ", "\n", " ", "y", "\n", "z">> >>, numeric |-> FALSE,
   expanded |-> << << <<>>, <<"x">> >>, << <<>>, <<"y">> >>, << <<>>, <<"z">> >> >>]

EmptyRow == [cells |-> <<>>, numeric |-> FALSE, expanded |-> <<>>]

EscapedRow ==
  [cells |-> << <<"(", "c", "i", "d", ":", "2", "0", ")">>, <<" ", "\n", "7">> >>,
   numeric |-> TRUE,
   expanded |-> << << <<"1">>, <<"7">> >> >>]

TextFirstRow ==
  [cells |-> << <<"a", "\n", "1">> >>, numeric |-> FALSE,
   expanded |-> << << <<"a">> >>, << <<"1">> >> >>]

RowKinds == { HeaderRow, PackedRow, NullFirstRow, EmptyRow, EscapedRow, TextFirstRow }

TableOf(rows) == [i \in 1..Len(rows) |-> rows[i].cells]

MaxScanRows == 5

DetectCalls ==
  { [fn |-> "_detect_header_rows", rows |-> rows] : rows \in SeqsUpTo(RowKinds, MaxScanRows) }

CallDetectHeaderRows ==
  /\ call.fn = "_detect_header_rows"
  /\ ~ret.done
  /\ ret' = Returns(_detect_header_rows(TableOf(call.rows)))
  /\ UNCHANGED << runVars, call, webVars >>

MaxExpandRows == 3

\* the header counts a caller passes: auto-detection, none, one, two
HeaderCounts == { -1, 0, 1, 2 }

ExpandCalls ==
  { [fn |-> "_expand_rows", rows |-> rows, header_rows |-> h] :
      rows \in SeqsUpTo(RowKinds, MaxExpandRows), h \in HeaderCounts }

CallExpandRows ==
  /\ call.fn = "_expand_rows"
  /\ ~ret.done
  /\ ret' = Returns(_expand_rows(TableOf(call.rows), call.header_rows))
  /\ UNCHANGED << runVars, call, webVars >>

\* 8-column tables with (A) and (E) in the header row: the header row of
\* SurrenderTable followed by data rows, packed or plain, or by a row of notes
NoteRow == << <<"N", "o", "t", "e">> >>

MaxDataRows == 3

SurrenderShaped ==
  { <<SurrenderTable[1]>> \o rows :
      rows \in SeqsUpTo({ SurrenderTable[2], SurrenderTable[3], NoteRow }, MaxDataRows) }

ClassifyCalls ==
  { [fn |-> "classify", page_idx |-> p, table |-> t] :
      p \in 0..(MaxPages - 1), t \in SurrenderShaped }

\* the body of the loop over the tables of a page (lines 350-393), on one table of a
\* document with no table classified yet
CallClassifyTable ==
  /\ call.fn = "classify"
  /\ ~ret.done
  /\ ret' = Returns(ClassifyTable(1, NoTables, call.page_idx, 1, call.table))
  /\ UNCHANGED << runVars, call, webVars >>

\* the cells a header row is put together from: the label, the cell as printed, and
\* the keywords of each role found in it; "Withdrawal" holds two withdrawal keywords
HeaderCells ==
  << [label |-> "A", cell |-> <<"(", "A", ")">>,
      nw |-> {"(a)"}, db |-> {}, wd |-> {}],
     [label |-> "B", cell |-> <<"(", "B", ")">>,
      nw |-> {"(b)"}, db |-> {}, wd |-> {}],
     [label |-> "C", cell |-> <<"(", "C", ")">>,
      nw |-> {"(c)"}, db |-> {}, wd |-> {}],
     [label |-> "E", cell |-> <<"(", "E", ")">>,
      nw |-> {"(e)"}, db |-> {}, wd |-> {}],
     [label |-> "F", cell |-> <<"(", "F", ")">>,
      nw |-> {}, db |-> {"(f)"}, wd |-> {}],
     [label |-> "G", cell |-> <<"(", "G", ")">>,
      nw |-> {}, db |-> {"(g)"}, wd |-> {}],
     [label |-> "H", cell |-> <<"(", "H", ")">>,
      nw |-> {}, db |-> {"(h)"}, wd |-> {}],
     [label |-> "1", cell |-> <<"(", "1", ")">>,
      nw |-> {}, db |-> {}, wd |-> {"(1)"}],
     [label |-> "2", cell |-> <<"(", "2", ")">>,
      nw |-> {}, db |-> {}, wd |-> {"(2)"}],
     [label |-> "Surrender", cell |-> <<"S", "u", "r", "r", "e", "n", "d", "e", "r">>,
      nw |-> {"surrender"}, db |-> {}, wd |-> {}],
     [label |-> "Death Benefit", cell |-> <<"D", "e", "a", "t", "h", " ", "B", "e", "n", "e", "f", "i", "t">>,
      nw |-> {}, db |-> {"death benefit"}, wd |-> {}],
     [label |-> "Withdrawal", cell |-> <<"W", "i", "t", "h", "d", "r", "a", "w", "a", "l">>,
      nw |-> {}, db |-> {}, wd |-> {"withdrawal", "withdraw"}] >>

MaxHeaderCells == 4

\* the column counts tried: below every range, the ends of the surrender-value
\* range, the two counts of the exact rules, above every bounded range
ColumnCounts == { 5, 6, 8, 10, 11 }

\* the cells picked by the set of positions chosen, in the order of HeaderCells
RECURSIVE Pick(_, _)
Pick(chosen, n) ==
  IF n = 0 THEN <<>>
  ELSE Pick(chosen, n - 1) \o (IF n \in chosen THEN <<HeaderCells[n]>> ELSE <<>>)

IdentifyCalls ==
  { [fn |-> "_identify_table_type", header |-> Pick(chosen, Len(HeaderCells)), ncols |-> n] :
      chosen \in { c \in SUBSET (1..Len(HeaderCells)) : Cardinality(c) <= MaxHeaderCells },
      n \in ColumnCounts }

CallIdentifyTableType ==
  /\ call.fn = "_identify_table_type"
  /\ ~ret.done
  /\ ret' = Returns(_identify_table_type(<< [i \in 1..Len(call.header) |-> call.header[i].cell] >>,
                                         call.ncols))
  /\ UNCHANGED << runVars, call, webVars >>

\* A float held exactly: the sign, the significant decimal digits (no zero at either
\* end, none at all for zero) and the position of the decimal point, the value being
\* 0.d1d2... * 10^decpt. A double holds a numeral of up to 15 significant digits so
\* that its shortest rendering shows these digits again.
PosZero == [neg |-> FALSE, digits |-> <<>>, decpt |-> 0]

RECURSIVE LeadingZeros(_)
LeadingZeros(s) == IF s # <<>> /\ Head(s) = "0" THEN 1 + LeadingZeros(Tail(s)) ELSE 0

RECURSIVE DropTrailingZeros(_)
DropTrailingZeros(s) ==
  IF s # <<>> /\ s[Len(s)] = "0" THEN DropTrailingZeros(SubSeq(s, 1, Len(s) - 1)) ELSE s

Zeros(n) == [i \in 1..n |-> "0"]

\* float(cleaned) on a string FloatOk accepts
DecimalOf(cleaned) ==
  LET neg   == cleaned # <<>> /\ Head(cleaned) = "-"
      parts == Split(Filter(cleaned, AsciiDigits \cup {"."}), ".")
      whole == parts[1]
      all   == Concat(parts)
      lead  == LeadingZeros(all)
      sig   == DropTrailingZeros(SubSeq(all, lead + 1, Len(all)))
  IN  IF sig = <<>> THEN [neg |-> neg, digits |-> <<>>, decpt |-> 0]
      ELSE [neg |-> neg, digits |-> sig, decpt |-> Len(whole) - lead]

\* clean_numeric with the float it returns held exactly
CleanNumericValue(text) ==
  IF ~Truthy(text) THEN PosZero
  ELSE LET t == Strip(text)
       IN  IF t \in BlankTokens THEN PosZero
           ELSE LET cleaned == Filter(t, AsciiDigits \cup {".", "-"})
                IN  IF cleaned = <<>> \/ cleaned = <<"-">> THEN PosZero
                    ELSE IF FloatOk(cleaned) THEN DecimalOf(cleaned) ELSE PosZero

\* a == b on two floats: the two zeros are equal
FloatEq(a, b) ==
  /\ a.digits = b.digits
  /\ a.decpt = b.decpt
  /\ a.digits = <<>> \/ a.neg = b.neg

\* str(v) writes a float with the point in place when the point lies from 3 places
\* before the first significant digit to 16 places after it, with an exponent otherwise
Positional(v) == v.digits = <<>> \/ (-3 <= v.decpt /\ v.decpt <= 16)

\* str(v) of a float v: '0.0', '-1.5', '0.0001', '1000000000000000.0', '1e-05',
\* '1.5e+16'
Rendering(v) ==
  LET n    == Len(v.digits)
      sign == IF v.neg THEN <<"-">> ELSE <<>>
      exp  == v.decpt - 1
      mag  == IF exp < 0 THEN 0 - exp ELSE exp
      body == IF n = 0 THEN <<"0", ".", "0">>
              ELSE IF ~Positional(v)
                THEN <<v.digits[1]>> \o (IF n > 1 THEN <<".">> \o Tail(v.digits) ELSE <<>>)
                     \o <<"e", IF exp < 0 THEN "-" ELSE "+">>
                     \o (IF mag < 10 THEN <<"0">> ELSE <<>>) \o Dec(mag)
              ELSE IF v.decpt <= 0 THEN <<"0", ".">> \o Zeros(0 - v.decpt) \o v.digits
              ELSE IF v.decpt >= n THEN v.digits \o Zeros(v.decpt - n) \o <<".", "0">>
              ELSE SubSeq(v.digits, 1, v.decpt) \o <<".">> \o SubSeq(v.digits, v.decpt + 1, n)
  IN  sign \o body

\* the pieces a cell text is put together from: digits, the point, the dash, and
\* what the cleaning removes (a comma, a blank, the not-applicable labels, the
\* em-dash)
NumeralPieces ==
  { [text |-> <<"1">>, kind |-> "digit"],
    [text |-> <<"5">>, kind |-> "digit"],
    [text |-> <<"0", "0", "0", "0">>, kind |-> "digit"],
    [text |-> <<"0", "0", "0", "0", "0", "0", "0", "0">>, kind |-> "digit"],
    [text |-> <<".">>, kind |-> "point"],
    [text |-> <<"-">>, kind |-> "dash"],
    [text |-> <<",">>, kind |-> "removed"],
    [text |-> <<" ">>, kind |-> "removed"],
    [text |-> <<"N", "/", "A">>, kind |-> "removed"],
    [text |-> <<"U+4E0D", "U+9002", "U+7528">>, kind |-> "removed"],
    [text |-> <<EmDash>>, kind |-> "removed"] }

MaxNumeralPieces == 3

\* the numerals a double holds digit for digit
HeldExactly(text) ==
  Len(DecimalOf(Filter(text, AsciiDigits \cup {"."})).digits) <= 15

NumeralCalls ==
  { [fn |-> "clean_numeric", pieces |-> ps, text |-> TextOf(ps), again |-> FALSE,
     first |-> PosZero] :
      ps \in { q \in SeqsUpTo(NumeralPieces, MaxNumeralPieces) : HeldExactly(TextOf(q)) } }

CallCleanNumeric ==
  /\ call.fn = "clean_numeric"
  /\ ~ret.done
  /\ ret' = Returns(CleanNumericValue(call.text))
  /\ UNCHANGED << runVars, call, webVars >>

\* clean_numeric is called on the rendering of the value it returned
CleanRendering ==
  /\ call.fn = "clean_numeric"
  /\ ret.done
  /\ ~call.again
  /\ call' = [call EXCEPT !.text = Rendering(ret.value), !.again = TRUE, !.first = ret.value]
  /\ ret' = Pending
  /\ UNCHANGED << runVars, webVars >>

\* the tables left unclassified that the fallback is tried on, with the role their
\* data rows give them: 4 rows by 8 columns, 4 by 10, 5 by 8, and two tables with no
\* data row, 4 by 8 and 4 by 11
OverflowKinds ==
  { [rows |-> UnknownTable8, role |-> "no_withdrawal"],
    [rows |-> UnknownTable10, role |-> "death_benefit"],
    [rows |-> Append(UnknownTable8, UnknownTable8[4]), role |-> "no_withdrawal"],
    [rows |-> [i \in 1..4 |-> UnknownTable8[1]], role |-> "None"],
    [rows |-> [i \in 1..4 |-> Append(UnknownTable10[1], <<"C", "o", "l">>)], role |-> "None"] }

MaxOverflow == 3

FallbackCalls ==
  { [fn |-> "fallback", kinds |-> ks, nw |-> nw, db |-> db] :
      ks \in SeqsUpTo(OverflowKinds, MaxOverflow),
      nw \in { <<>>, <<TableAt(0, 1, SurrenderTable)>> },
      db \in { <<>>, <<TableAt(0, 2, DeathTable)>> } }

\* the unclassified tables of a call, the k-th being the k-th table of the second page
Overflow(kinds) == [k \in 1..Len(kinds) |-> TableAt(1, k, kinds[k].rows)]

\* _do_extract, lines 395-433, on the collections the loop over the pages left
CallFallback ==
  /\ call.fn = "fallback"
  /\ ~ret.done
  /\ ret' = Returns(FallbackAndSummary(1, [NoTables EXCEPT !.nw = call.nw, !.db = call.db,
                                                         !.unclassified = Overflow(call.kinds)]))
  /\ UNCHANGED << runVars, call, webVars >>

\* the rows a table given to the heuristic is put together from, each with the data
\* rows it unpacks to: their cell count, whether column 3 holds a positive amount,
\* whether int() accepts the first cell
\* years 1 to 5 packed into one row of 10 cells, nothing in column 3
FiveYearRow ==
  [cells |-> << <<"1", "\n", "2", "\n", "3", "\n", "4", "\n", "5">>, <<"3", "6">>, <<"0">>, <<"0", "\n", "0", "\n", "0", "\n", "0", "\n", "0">>, <<"0">>, <<"0">>, <<"0">>, <<"0">>, <<"0">>, <<"9">> >>,
   data |-> << [cols |-> 10, positive |-> FALSE, int |-> TRUE], [cols |-> 10, positive |-> FALSE, int |-> TRUE], [cols |-> 10, positive |-> FALSE, int |-> TRUE], [cols |-> 10, positive |-> FALSE, int |-> TRUE], [cols |-> 10, positive |-> FALSE, int |-> TRUE] >>]

\* a year with 500 in column 3, 10 cells
AmountRow ==
  [cells |-> << <<"6">>, <<"4", "1">>, <<"0">>, <<"5", "0", "0">>, <<"0">>, <<"0">>, <<"0">>, <<"0">>, <<"0">>, <<"9">> >>,
   data |-> << [cols |-> 10, positive |-> TRUE, int |-> TRUE] >>]

\* a year with a dash in column 3, 10 cells
NoAmountRow ==
  [cells |-> << <<"7">>, <<"4", "2">>, <<"0">>, <<"-">>, <<"0">>, <<"0">>, <<"0">>, <<"0">>, <<"0">>, <<"9">> >>,
   data |-> << [cols |-> 10, positive |-> FALSE, int |-> TRUE] >>]

\* a year in a row of 8 cells, 500 in column 3
EightCellRow ==
  [cells |-> << <<"8">>, <<"4", "3">>, <<"0">>, <<"5", "0", "0">>, <<"0">>, <<"0">>, <<"0">>, <<"9">> >>,
   data |-> << [cols |-> 8, positive |-> TRUE, int |-> TRUE] >>]

\* a year in a row of 3 cells: no column 3
ThreeCellRow ==
  [cells |-> << <<"9">>, <<"4", "4">>, <<"0">> >>,
   data |-> << [cols |-> 3, positive |-> FALSE, int |-> TRUE] >>]

\* a row of notes, 10 cells
NotesRow ==
  [cells |-> << <<"x">>, <<"x">>, <<"x">>, <<"5", "0", "0">>, <<"x">>, <<"x">>, <<"x">>, <<"x">>, <<"x">>, <<"x">> >>,
   data |-> <<>>]

\* a row whose first cell is a superscript two (isdigit() holds, int() raises), 10 cells, 500 in column 3
SuperscriptRow ==
  [cells |-> << <<SuperTwo>>, <<"4", "5">>, <<"0">>, <<"5", "0", "0">>, <<"0">>, <<"0">>, <<"0">>, <<"0">>, <<"0">>, <<"9">> >>,
   data |-> << [cols |-> 10, positive |-> TRUE, int |-> FALSE] >>]

DataRowKinds ==
  { FiveYearRow, AmountRow, NoAmountRow, EightCellRow, ThreeCellRow, NotesRow, SuperscriptRow }

MaxHeuristicRows == 3

HeuristicCalls ==
  { [fn |-> "_heuristic_classify", rows |-> rows] :
      rows \in SeqsUpTo(DataRowKinds, MaxHeuristicRows) }

\* the table of a call: the header row of UnknownTable10, then the rows
CallHeuristicClassify ==
  /\ call.fn = "_heuristic_classify"
  /\ ~ret.done
  /\ ret' = Returns(_heuristic_classify(<<UnknownTable10[1]>> \o TableOf(call.rows)))
  /\ UNCHANGED << runVars, call, webVars >>

\* the header cells a column mapper is given, each with the fields whose keywords it
\* holds, in the order of the if/elif chain, for the surrender-value mapper and for
\* the withdrawal mapper; a null cell holds none
ColumnCells ==
  { [cell |-> <<"P", "r", "e", "m", "i", "u", "m">>,
     nw |-> <<"cumulative_premium">>, wd |-> <<>>],
    [cell |-> <<"(", "A", ")">>,
     nw |-> <<"guaranteed_cv">>, wd |-> <<"remaining_guaranteed">>],
    [cell |-> <<"T", "o", "t", "a", "l", " ", "(", "A", ")">>,
     nw |-> <<"guaranteed_cv", "total_surrender">>, wd |-> <<"remaining_guaranteed", "remaining_total">>],
    [cell |-> <<"T", "o", "t", "a", "l">>,
     nw |-> <<"total_surrender">>, wd |-> <<"remaining_total">>],
    [cell |-> <<"W", "i", "t", "h", "d", "r", "a", "w", "a", "l">>,
     nw |-> <<>>, wd |-> <<"withdrawal_amount">>],
    [cell |-> NoneCell, nw |-> <<>>, wd |-> <<>>] }

\* the first columns of a header: none, one, or two
LeadCells ==
  { <<>>,
    << [cell |-> <<"P", "r", "e", "m", "i", "u", "m">>, nw |-> <<"cumulative_premium">>, wd |-> <<>>] >>,
    << [cell |-> <<"Y", "e", "a", "r">>, nw |-> <<>>, wd |-> <<>>],
       [cell |-> <<"A", "g", "e">>, nw |-> <<>>, wd |-> <<>>] >>,
    << [cell |-> <<"P", "r", "e", "m", "i", "u", "m">>, nw |-> <<"cumulative_premium">>, wd |-> <<>>],
       [cell |-> <<"T", "o", "t", "a", "l">>, nw |-> <<"total_surrender">>, wd |-> <<"remaining_total">>] >> }

MaxMappedCols == 3

MappingCalls ==
  { [fn |-> "column_mapping", wd |-> wd, header |-> lead \o cols] :
      wd \in BOOLEAN, lead \in LeadCells, cols \in SeqsUpTo(ColumnCells, MaxMappedCols) }

\* a table of one header row and one data row as wide
MappedTable(header) ==
  << [j \in 1..Len(header) |-> header[j].cell], [j \in 1..Len(header) |-> <<"1">>] >>

CallColumnMapping ==
  /\ call.fn = "column_mapping"
  /\ ~ret.done
  /\ ret' = Returns(IF call.wd THEN _detect_wd_column_mapping(MappedTable(call.header), 1)
                    ELSE _detect_nw_column_mapping(MappedTable(call.header), 1))
  /\ UNCHANGED << runVars, call, webVars >>

\* the header rows a record assembler is tried on, each with the mapping its labels
\* give
\* 8 columns, no keyword: every field at its default
PlainHeader ==
  [wd |-> FALSE,
   cells |-> << <<"Y", "e", "a", "r">>,
              <<"A", "g", "e">>,
              <<"C", "o", "l">>,
              <<"C", "o", "l">>,
              <<"C", "o", "l">>,
              <<"C", "o", "l">>,
              <<"C", "o", "l">>,
              <<"C", "o", "l">> >>,
   detected |-> ("year" :> 0) @@ ("age" :> 1)]

\* 9 columns, the conventional fields one column to the right
ShiftedHeader ==
  [wd |-> FALSE,
   cells |-> << <<"Y", "e", "a", "r">>,
              <<"A", "g", "e">>,
              <<"C", "o", "l">>,
              <<"P", "r", "e", "m", "i", "u", "m">>,
              <<"(", "A", ")">>,
              <<"(", "B", ")">>,
              <<"(", "C", ")">>,
              <<"#">>,
              <<"T", "o", "t", "a", "l">> >>,
   detected |-> ("year" :> 0) @@ ("age" :> 1) @@ ("cumulative_premium" :> 3) @@ ("guaranteed_cv" :> 4) @@ ("reversionary_bonus" :> 5) @@ ("terminal_dividend" :> 6) @@ ("special_div" :> 7) @@ ("total_surrender" :> 8)]

\* 8 columns, the premium alone detected, in column 5
PremiumOnlyHeader ==
  [wd |-> FALSE,
   cells |-> << <<"Y", "e", "a", "r">>,
              <<"A", "g", "e">>,
              <<"C", "o", "l">>,
              <<"C", "o", "l">>,
              <<"C", "o", "l">>,
              <<"P", "r", "e", "m", "i", "u", "m">>,
              <<"C", "o", "l">>,
              <<"C", "o", "l">> >>,
   detected |-> ("year" :> 0) @@ ("age" :> 1) @@ ("cumulative_premium" :> 5)]

\* 7 columns, a layout with no special-dividend column: the total is column 6
SevenColumnHeader ==
  [wd |-> FALSE,
   cells |-> << <<"Y", "e", "a", "r">>,
              <<"A", "g", "e">>,
              <<"P", "r", "e", "m", "i", "u", "m">>,
              <<"(", "A", ")">>,
              <<"(", "B", ")">>,
              <<"(", "C", ")">>,
              <<"T", "o", "t", "a", "l">> >>,
   detected |-> ("year" :> 0) @@ ("age" :> 1) @@ ("cumulative_premium" :> 2) @@ ("guaranteed_cv" :> 3) @@ ("reversionary_bonus" :> 4) @@ ("terminal_dividend" :> 5) @@ ("total_surrender" :> 6)]

\* a withdrawal table of 10 columns, no keyword
PlainWdHeader ==
  [wd |-> TRUE,
   cells |-> << <<"Y", "e", "a", "r">>,
              <<"A", "g", "e">>,
              <<"C", "o", "l">>,
              <<"C", "o", "l">>,
              <<"C", "o", "l">>,
              <<"C", "o", "l">>,
              <<"C", "o", "l">>,
              <<"C", "o", "l">>,
              <<"C", "o", "l">>,
              <<"C", "o", "l">> >>,
   detected |-> ("year" :> 0) @@ ("age" :> 1)]

\* a withdrawal table of 8 columns, every field detected
PackedWdHeader ==
  [wd |-> TRUE,
   cells |-> << <<"Y", "e", "a", "r">>,
              <<"A", "g", "e">>,
              <<"W", "i", "t", "h", "d", "r", "a", "w", "a", "l">>,
              <<"(", "A", ")">>,
              <<"(", "B", ")">>,
              <<"(", "C", ")">>,
              <<"#">>,
              <<"T", "o", "t", "a", "l">> >>,
   detected |-> ("year" :> 0) @@ ("age" :> 1) @@ ("withdrawal_amount" :> 2) @@ ("remaining_guaranteed" :> 3) @@ ("remaining_bonus" :> 4) @@ ("remaining_terminal" :> 5) @@ ("remaining_special" :> 6) @@ ("remaining_total" :> 7)]

RecordHeaders ==
  { PlainHeader, ShiftedHeader, PremiumOnlyHeader, SevenColumnHeader, PlainWdHeader,
    PackedWdHeader }

MaxRowCells == 9

\* a data row of n cells: year 1, age 36, then 20, 30, 40, ... in columns 2, 3, 4, ...
DataRow(n) ==
  [j \in 1..n |-> IF j = 1 THEN <<"1">> ELSE IF j = 2 THEN <<"3", "6">> ELSE Dec((j - 1) * 10)]

RecordCalls ==
  { [fn |-> "records", header |-> h, ncells |-> n, annual_premium |-> p] :
      h \in RecordHeaders, n \in MinRowCells..MaxRowCells, p \in {0, 1000 * Scale} }

\* _extract_yearly_data or _extract_withdrawal_data on one table of the role: the
\* header row and one data row
CallExtractRecords ==
  /\ call.fn = "records"
  /\ ~ret.done
  /\ \E table \in { << call.header.cells, DataRow(call.ncells) >> } :
       ret' = Returns(IF call.header.wd
                      THEN _extract_withdrawal_data(1, <<table>>).withdrawal_data
                      ELSE _extract_yearly_data(1, <<table>>, <<>>,
                             [DefaultPolicyInfo EXCEPT !.annual_premium = call.annual_premium])
                             .yearly_data)
  /\ UNCHANGED << runVars, call, webVars >>

Calls ==
  DecodeCalls \cup DetectCalls \cup ExpandCalls \cup ClassifyCalls \cup IdentifyCalls
    \cup NumeralCalls \cup FallbackCalls \cup HeuristicCalls \cup MappingCalls \cup RecordCalls

InitCalls == Idle /\ call \in Calls /\ ret = Pending /\ Loaded({NoEnviron})

NextCalls ==
  \/ CallDecodeCid
  \/ CallDetectHeaderRows
  \/ CallExpandRows
  \/ CallClassifyTable
  \/ CallIdentifyTableType
  \/ CallCleanNumeric
  \/ CleanRendering
  \/ CallFallback
  \/ CallHeuristicClassify
  \/ CallColumnMapping
  \/ CallExtractRecords

SpecCalls == InitCalls /\ [][NextCalls]_vars

\* -------------------------------------------------------------------------
\* Properties
\* -------------------------------------------------------------------------

Returned(r) == outcome[r] = "returned"

HasWarning(r, kind) == \E i \in 1..Len(warnings(r)) : warnings(r)[i].kind = kind

\* the ids of the tables of a collection
Ids(ts) == { ts[i].id : i \in 1..Len(ts) }

\* strictly ascending years: ascending order and no year twice
AscendingYears(records) ==
  \A i, j \in 1..Len(records) : i < j => records[i].year < records[j].year

\* C1: extract fails only when the document cannot be opened; for a document that
\* opens, whatever its pages and tables, it returns a record.
C1_RaisesOnlyWhenUnopenable ==
  \A r \in Runs : outcome[r] = "raised" => numPages[r] = Unopenable

\* C1, the failing runs: a document that opened, with a table on a page, raises
\* ValueError out of extract.
C1_OpenedDocumentRaises ==
  \E r \in Runs : outcome[r] = "raised" /\ numPages[r] >= 1 /\ exc[r] = "ValueError"

\* C2: a document that opens and holds no table makes extract return a record with
\* an empty yearly_data, and leaves the warnings of the empty series in the log.
C2_NoTableGivesEmptySeries ==
  \A r \in Runs :
    (pc[r] = "done" /\ numPages[r] # Unopenable /\ seen[r] = 0)
      => /\ Returned(r)
         /\ result[r].yearly_data = <<>>
         /\ HasWarning(r, "no_yearly")
         /\ HasWarning(r, "diagnostic")

\* C2, the failing run: a document with no page, hence no table, raises IndexError.
C2_ZeroPageDocumentRaises ==
  \E r \in Runs :
    pc[r] = "done" /\ numPages[r] = 0 /\ seen[r] = 0 /\ exc[r] = "IndexError"
      /\ outcome[r] = "raised"

\* C3: a returned record holds policy_info with exactly the fields of PolicyInfo,
\* yearly records with exactly the fields of YearlyRecord and, when the key
\* withdrawal_data is present, withdrawal records with exactly the fields of
\* WithdrawalRecord.
C3_ResultFields ==
  \A r \in Runs :
    Returned(r) =>
      /\ {"policy_info", "yearly_data"} \subseteq DOMAIN result[r]
      /\ DOMAIN result[r].policy_info = PolicyInfoFields
      /\ \A i \in 1..Len(result[r].yearly_data) :
           DOMAIN result[r].yearly_data[i] = YearlyRecordFields
      /\ "withdrawal_data" \in DOMAIN result[r] =>
           \A i \in 1..Len(result[r].withdrawal_data) :
             DOMAIN result[r].withdrawal_data[i] = WithdrawalRecordFields

\* C3, its case: a returned record with yearly records and with withdrawal records.
C3_ReturnedWithBothSeries ==
  \E r \in Runs :
    /\ Returned(r)
    /\ result[r].yearly_data # <<>>
    /\ "withdrawal_data" \in DOMAIN result[r]
    /\ result[r].withdrawal_data # <<>>

\* C4: once extract has returned or raised, no handle the run opened, the primary
\* one or the one of the alternate text path, is still open.
C4_HandlesReleased ==
  \A r \in Runs : pc[r] = "done" => \A h \in openHandles : h[1] # r

\* C4, the failing run: extract has returned and the handle of the alternate text
\* path is open.
C4_FitzHandleLeftOpen ==
  \E r \in Runs : Returned(r) /\ <<r, "fitz">> \in openHandles

\* C5: each run has an extractor object of its own, so a warning log holds only the
\* warnings of its run, and the handle a run is using stays the one it opened and
\* stays open until the run itself closes it.
C5_RunsIsolated ==
  \A r \in Runs :
    self[r] # 0 =>
      /\ \A q \in Runs \ {r} : self[q] # self[r]
      /\ \A i \in 1..Len(warnings(r)) : warnings(r)[i].by = r
      /\ pc[r] \in {"classify", "policy", "yearly", "autodetect", "withdrawal", "finally"} =>
           /\ extractors[self[r]]._pdf = <<r, "pdfplumber">>
           /\ <<r, "pdfplumber">> \in openHandles

\* C5, its case: two runs in the middle of extract at once, each with warnings logged.
C5_TwoRunsInterleaved ==
  \E r, q \in Runs :
    /\ r # q
    /\ pc[r] = "policy" /\ pc[q] = "yearly"
    /\ warnings(r) # <<>> /\ warnings(q) # <<>>

\* C6: no table is in two of the collections nw_tables, db_tables, wd_tables.
C6_OneRolePerTable ==
  \A r \in Runs :
    /\ Ids(nw_tables(r)) \cap Ids(db_tables(r)) = {}
    /\ Ids(nw_tables(r)) \cap Ids(wd_tables(r)) = {}
    /\ Ids(db_tables(r)) \cap Ids(wd_tables(r)) = {}

\* C6, the failing run: after the fallback one table is a death-benefit table and a
\* surrender-value table.
C6_TableInTwoCollections ==
  \E r \in Runs :
    pc[r] = "policy" /\ HasWarning(r, "last_resort")
      /\ Ids(nw_tables(r)) \cap Ids(db_tables(r)) # {}

\* C7: a returned yearly_data holds one record per year in ascending order of year,
\* and a returned withdrawal_data likewise.
C7_OneRecordPerYearAscending ==
  \A r \in Runs :
    Returned(r) =>
      /\ AscendingYears(result[r].yearly_data)
      /\ "withdrawal_data" \in DOMAIN result[r] => AscendingYears(result[r].withdrawal_data)

\* C7, the failing run: a returned yearly_data with two records of one year.
C7_YearTwiceInSeries ==
  \E r \in Runs :
    /\ Returned(r)
    /\ \E i, j \in 1..Len(result[r].yearly_data) :
         i < j /\ result[r].yearly_data[i].year = result[r].yearly_data[j].year

\* the death-benefit lookup of a run, from the tables in db_tables
DbLookup(r) == db_by_year(ExpandTables(RowsOf(db_tables(r))))

\* C8: in a returned record, a yearly record whose year is absent from the
\* death-benefit lookup has for total_death_benefit the greater of its
\* total_surrender_value and its cumulative_premium, which is not 0 when either
\* is positive.
C8_DeathBenefitDefault ==
  \A r \in Runs :
    Returned(r) =>
      \A i \in 1..Len(result[r].yearly_data) :
        \A rec \in { result[r].yearly_data[i] } :
          rec.year \notin DOMAIN DbLookup(r) =>
            /\ rec.total_death_benefit >= rec.total_surrender_value
            /\ rec.total_death_benefit >= rec.cumulative_premium
            /\ rec.total_death_benefit \in {rec.total_surrender_value, rec.cumulative_premium}
            /\ (rec.total_surrender_value > 0 \/ rec.cumulative_premium > 0) =>
                 rec.total_death_benefit # 0

\* C8, its case: a death-benefit table was read, a year of the series is absent
\* from it, and the record of that year has its premium above its surrender value.
C8_YearAbsentFromLookup ==
  \E r \in Runs :
    /\ Returned(r)
    /\ db_tables(r) # <<>>
    /\ \E i \in 1..Len(result[r].yearly_data) :
         /\ result[r].yearly_data[i].year \notin DOMAIN DbLookup(r)
         /\ result[r].yearly_data[i].cumulative_premium
              > result[r].yearly_data[i].total_surrender_value
         /\ result[r].yearly_data[i].total_death_benefit > 0

\* the positions of a series at which the cumulative premium equals the one of the
\* record before (0-based, as the loop counts them)
Stops(series) ==
  { i \in 1..(Len(series) - 1) :
      series[i + 1].cumulative_premium = series[i].cumulative_premium }

IsLeast(i, S) == i \in S /\ \A j \in S : i <= j

\* C9 as stated: whenever the returned series is not empty, annual_premium is the
\* cumulative premium of its first record, payment_years is the first position at
\* which the cumulative premium stops increasing, and the override is in the log.
C9_OverrideWheneverSeries ==
  \A r \in Runs :
    (Returned(r) /\ result[r].yearly_data # <<>>) =>
      /\ result[r].policy_info.annual_premium = result[r].yearly_data[1].cumulative_premium
      /\ \A i \in Stops(result[r].yearly_data) :
           IsLeast(i, Stops(result[r].yearly_data)) => result[r].policy_info.payment_years = i
      /\ HasWarning(r, "auto_premium")

\* C9, amended: the step after the yearly series is read overrides only when the
\* series is not empty and the cumulative premium of its first record is positive.
\* Then annual_premium becomes that premium, payment_years becomes the first
\* position whose cumulative premium equals the one before and keeps its value
\* when there is no such position, and one warning is appended; otherwise
\* annual_premium and payment_years keep their values and nothing is appended.
C9_OverrideWhenFirstPremiumPositive ==
  [][ \A r \in Runs :
        (pc[r] = "autodetect" /\ pc'[r] = "withdrawal") =>
          IF yearly_data[r] # <<>> /\ yearly_data[r][1].cumulative_premium > 0
          THEN /\ policy_info'[r].annual_premium = yearly_data[r][1].cumulative_premium
               /\ \A i \in Stops(yearly_data[r]) :
                    IsLeast(i, Stops(yearly_data[r])) => policy_info'[r].payment_years = i
               /\ Stops(yearly_data[r]) = {} =>
                    policy_info'[r].payment_years = policy_info[r].payment_years
               /\ Len(extractors'[self[r]].warnings) = Len(warnings(r)) + 1
               /\ extractors'[self[r]].warnings[Len(warnings(r)) + 1].kind = "auto_premium"
          ELSE /\ policy_info'[r].annual_premium = policy_info[r].annual_premium
               /\ policy_info'[r].payment_years = policy_info[r].payment_years
               /\ extractors'[self[r]].warnings = warnings(r)
    ]_vars

\* C9, its case: the series with cumulative premium 1000, 2000, 2000, 2000 has
\* given annual premium 1000 and payment duration 2, and the override is logged.
C9_OverrideFromSeries ==
  \E r \in Runs :
    /\ pc[r] = "withdrawal"
    /\ Len(yearly_data[r]) = 4
    /\ \A i \in 1..4 : yearly_data[r][i].cumulative_premium = Min(i, 2) * 1000 * Scale
    /\ policy_info[r].annual_premium = 1000 * Scale
    /\ policy_info[r].payment_years = 2
    /\ HasWarning(r, "auto_premium")

\* C10: from the moment the policy info is extracted to the returned record,
\* total_premium is annual_premium times payment_years, and it is 0 exactly when
\* annual_premium is 0.
C10_TotalPremiumDerived ==
  \A r \in Runs :
    pc[r] \in {"yearly", "autodetect", "withdrawal"} \/ Returned(r) =>
      /\ policy_info[r].total_premium = policy_info[r].annual_premium * policy_info[r].payment_years
      /\ policy_info[r].total_premium = 0 <=> policy_info[r].annual_premium = 0
      /\ Returned(r) => result[r].policy_info = policy_info[r]

\* C10, its case: a returned record whose premium the policy table gave and the
\* yearly series then set again, the total being derived a second time.
C10_ReturnedAfterOverride ==
  \E r \in Runs :
    /\ Returned(r)
    /\ HasWarning(r, "auto_premium")
    /\ policy_tables(r) # <<>>
    /\ PolicyFromTables(RowsOf(policy_tables(r))).annual_premium > 0
    /\ result[r].policy_info.total_premium > 0

\* s is a prefix of t
IsPrefix(s, t) == Len(s) <= Len(t) /\ SubSeq(t, 1, Len(s)) = s

\* C11: every step of a run leaves the warnings recorded so far as an unchanged
\* prefix of the run's log, on the same extractor object: entries are only added
\* at the end, none is removed, reordered or rewritten, also by the step on which
\* an exception starts to propagate and by the finally clause.
C11_WarningsAppendOnly ==
  [][ \A r \in Runs :
        self[r] # 0 =>
          /\ self'[r] = self[r]
          /\ IsPrefix(warnings(r), extractors'[self[r]].warnings)
    ]_vars

\* C11, its case: a finished run whose log holds, in this order, the warning of an
\* unclassified table, the classification summary and the premium override, each
\* appended by a different step.
C11_LogOfSeveralSteps ==
  \E r \in Runs :
    /\ pc[r] = "done"
    /\ \E i, j, k \in 1..Len(warnings(r)) :
         /\ i < j /\ j < k
         /\ warnings(r)[i].kind = "unclassified"
         /\ warnings(r)[j].kind = "summary"
         /\ warnings(r)[k].kind = "auto_premium"

\* the warnings of a run that report a table the primary classifier did not recognise
UnclassifiedWarnings(r) ==
  { i \in 1..Len(warnings(r)) : warnings(r)[i].kind = "unclassified" }

\* C13: every table the primary classifier leaves unclassified is kept in
\* unclassified_tables and has one warning giving its shape and header preview:
\* there are as many such warnings as tables kept.
C13_UnclassifiedRetained ==
  \A r \in Runs :
    self[r] # 0 => Cardinality(UnclassifiedWarnings(r)) = Len(unclassified_tables(r))

\* C13, the failing run: a table of two rows on the second page was reported as
\* unclassified, with its shape, and nothing was kept for the fallback.
C13_SmallTableDropped ==
  \E r \in Runs :
    /\ self[r] # 0
    /\ unclassified_tables(r) = <<>>
    /\ \E i \in UnclassifiedWarnings(r) :
         /\ warnings(r)[i].args[1] = 2
         /\ warnings(r)[i].args[2] = 2
         /\ warnings(r)[i].args[3] = 3

\* the mapping a table of a role yields when the detector of the role is run on it
OwnMapping(table, wd) == DetectMapping(table, _detect_header_rows(table), wd)

\* the mapping of the first of the tables that yields one, the empty one when none does
MappingOfFirst(ts, wd) ==
  IF \A i \in 1..Len(ts) : OwnMapping(ts[i], wd) = EmptyDict THEN EmptyDict
  ELSE OwnMapping(ts[CHOOSE i \in 1..Len(ts) :
                       /\ OwnMapping(ts[i], wd) # EmptyDict
                       /\ \A j \in 1..(i - 1) : OwnMapping(ts[j], wd) = EmptyDict], wd)

\* the mapping of a kind that the log of a run records
LoggedMapping(r, kind, m) ==
  \E i \in 1..Len(warnings(r)) : warnings(r)[i].kind = kind /\ warnings(r)[i].args = <<m>>

\* C18: the column mapping of a role is the one of the first table of the role
\* that yields a mapping, whatever the later tables of the role would yield; it is
\* the one logged, and every record of the series is its row read through it:
\* the yearly series once it is extracted, the withdrawal series once extract is
\* about to return.
C18_MappingFixedByFirstTable ==
  \A r \in Runs :
    /\ pc[r] = "autodetect" =>
         \A m \in { MappingOfFirst(RowsOf(nw_tables(r)), FALSE) } :
           /\ m # EmptyDict => LoggedMapping(r, "nw_mapping", m)
           /\ yearly_data[r] = YearlyRecords(ExpandTables(RowsOf(nw_tables(r))), m,
                                             DbLookup(r), policy_info[r])
    /\ (pc[r] = "finally" /\ exc[r] = "None") =>
         \A m \in { MappingOfFirst(RowsOf(wd_tables(r)), TRUE) } :
           /\ m # EmptyDict => LoggedMapping(r, "wd_mapping", m)
           /\ withdrawal_data[r] = WithdrawalRecords(ExpandTables(RowsOf(wd_tables(r))), m)

\* C18, its case: two surrender-value tables that yield different mappings have
\* been read into one yearly series, records of both tables in it.
C18_TwoTablesOneMapping ==
  \E r \in Runs :
    /\ pc[r] = "autodetect"
    /\ Len(nw_tables(r)) = 2
    /\ OwnMapping(nw_tables(r)[1].rows, FALSE) # OwnMapping(nw_tables(r)[2].rows, FALSE)
    /\ OwnMapping(nw_tables(r)[2].rows, FALSE) # EmptyDict
    /\ Len(yearly_data[r]) > Len(ExpandTables(<<nw_tables(r)[1].rows>>))

IsEscape(piece) == Len(piece.text) > 6 /\ MatchAt(piece.text, CidPrefix, 1)

\* C16: decode_cid returns a text with no escape as it is; in a text with escapes
\* each escape whose index plus 29 is a code in 32..126 becomes the character of
\* that code, each other escape becomes nothing, and the text between the escapes
\* is kept in order.
C16_DecodeCid ==
  (call.fn = "decode_cid" /\ ret.done) =>
    /\ ret.value = Concat([i \in 1..Len(call.pieces) |-> call.pieces[i].decoded])
    /\ (\A i \in 1..Len(call.pieces) : ~IsEscape(call.pieces[i])) =>
         ret.value = TextOf(call.pieces)

\* C16, its case: a text with a plain character, an escape out of the printable
\* range and an escape inside it has been decoded.
C16_MixedTextDecoded ==
  /\ call.fn = "decode_cid" /\ ret.done
  /\ TextOf(call.pieces) = <<"a", "(", "c", "i", "d", ":", "2", ")",
                              "(", "c", "i", "d", ":", "3", "6", ")">>
  /\ ret.value = <<"a", "A">>

\* the 0-based indices of the rows that start the data
NumericRows(rows) == { i \in 0..(Len(rows) - 1) : rows[i + 1].numeric }

SetMin(S) == CHOOSE x \in S : \A y \in S : x <= y

ExpandedOf(rows) == Concat([i \in 1..Len(rows) |-> rows[i].expanded])

\* the number of lines of a cell once decoded and stripped
LinesOf(cell) == Len(Split(DecodeCell(cell), "\n"))

\* C15: each physical row after the header unpacks to as many sub-rows as its longest
\* cell has lines, every sub-row has the cell count of the physical row, and a cell
\* with fewer lines is padded with empty strings.
C15_ExpandRows ==
  (call.fn = "_expand_rows" /\ ret.done) =>
    /\ \A kind \in RowKinds :
         /\ Len(kind.expanded) = MaxLen([k \in 1..Len(kind.cells) |->
                                           [j \in 1..LinesOf(kind.cells[k]) |-> j]])
         /\ \A j \in 1..Len(kind.expanded) :
              /\ Len(kind.expanded[j]) = Len(kind.cells)
              /\ \A k \in 1..Len(kind.cells) :
                   j > LinesOf(kind.cells[k]) => kind.expanded[j][k] = <<>>
    /\ \E h \in { IF call.header_rows < 0 THEN _detect_header_rows(TableOf(call.rows))
                  ELSE call.header_rows } :
         ret.value = ExpandedOf(Drop(call.rows, h))

\* a packed row after one header row: two sub-rows, the short cell padded
C15_PackedRowExpanded ==
  /\ call.fn = "_expand_rows"
  /\ ret.done
  /\ call.rows = << HeaderRow, PackedRow >>
  /\ call.header_rows = -1
  /\ ret.value = << << <<"1">>, <<"a">> >>, << <<"2">>, <<>> >> >>

\* C12: an 8-column table whose header holds "(A)" and "(E)" is placed in the
\* surrender-value collection by the loop over the tables, whatever its number of
\* rows and whatever its page.
C12_SurrenderWhateverRows ==
  (call.fn = "classify" /\ ret.done) => RowsOf(ret.value.nw) = <<call.table>>

\* the classifier alone gives the surrender-value role to every such table
C12_ClassifierAlone ==
  (call.fn = "classify" /\ ret.done) =>
    \A n \in 1..Len(call.table) :
      _identify_table_type(Take(call.table, n), MaxLen(call.table)) = "no_withdrawal"

\* a header and two data rows on the first page: taken for a policy-information table
C12_SmallFirstPageTable ==
  /\ call.fn = "classify"
  /\ ret.done
  /\ call.page_idx = 0
  /\ Len(call.table) = 3
  /\ MaxLen(call.table) = 8
  /\ RowsOf(ret.value.policy) = <<call.table>>
  /\ ret.value.nw = <<>>

Labels(header) == { header[i].label : i \in 1..Len(header) }

\* the role of the first exact rule that applies to a header with these labels
ExactRole(labels, ncols) ==
  IF ncols = 8 /\ {"A", "E"} \subseteq labels THEN "no_withdrawal"
  ELSE IF ncols = 8 /\ {"A", "B"} \subseteq labels THEN "no_withdrawal"
  ELSE IF ncols = 10 /\ "F" \in labels THEN "death_benefit"
  ELSE IF ncols = 10 /\ {"1", "2"} \subseteq labels THEN "withdrawal"
  ELSE IF ncols = 10 /\ "G" \in labels THEN "death_benefit"
  ELSE "None"

\* the keyword match counts of the three roles
NwHits(header) == Cardinality(UNION { header[i].nw : i \in 1..Len(header) })
DbHits(header) == Cardinality(UNION { header[i].db : i \in 1..Len(header) })
WdHits(header) == Cardinality(UNION { header[i].wd : i \in 1..Len(header) })

\* C19: whenever an exact rule applies, the result of _identify_table_type is the
\* role of the first such rule in the order (A)+(E), (A)+(B), (F), (1)+(2), (G),
\* whatever the keyword scores of the three roles are.
C19_ExactRulesFirst ==
  (call.fn = "_identify_table_type" /\ ret.done) =>
    (ExactRole(Labels(call.header), call.ncols) # "None" =>
       ret.value = ExactRole(Labels(call.header), call.ncols))

\* 10 columns with (F), (1) and (2): death-benefit by the exact rule, although two
\* withdrawal keywords match and withdrawal is the first role of the keyword tier
C19_ExactBeatsKeywords ==
  /\ call.fn = "_identify_table_type"
  /\ ret.done
  /\ call.ncols = 10
  /\ Labels(call.header) = {"F", "1", "2"}
  /\ WdHits(call.header) = 2
  /\ ret.value = "death_benefit"

Kept(pieces) == SelectSeq(pieces, LAMBDA q : q.kind # "removed")

\* the kept pieces spell a numeral float() accepts: a digit, at most one point, a
\* dash at the front only
SpellsNumeral(pieces) ==
  /\ \E i \in 1..Len(pieces) : pieces[i].kind = "digit"
  /\ Cardinality({ i \in 1..Len(pieces) : pieces[i].kind = "point" }) <= 1
  /\ \A i \in 2..Len(Kept(pieces)) : Kept(pieces)[i].kind # "dash"

\* C17 (as stated): cleaning the rendering of the result of clean_numeric on a clean
\* numeral string gives the same value.
C17_IdempotentOnCleanNumerals ==
  (call.fn = "clean_numeric" /\ ret.done /\ call.again
     /\ Kept(call.pieces) = call.pieces /\ SpellsNumeral(call.pieces)) =>
    FloatEq(ret.value, call.first)

\* C17 (amended): clean_numeric returns a float on every text; the float is exactly
\* 0.0 for a blank token, for a text with no digit and for a text whose kept
\* characters spell no numeral; cleaning the rendering of a result gives the same
\* value when the rendering has the point in place, and another value when the
\* rendering has an exponent.
C17_CleanNumeric ==
  (call.fn = "clean_numeric" /\ ret.done) =>
    /\ ret.value.neg \in BOOLEAN
    /\ (~call.again /\ Strip(call.text) \in BlankTokens) =>
         ret.value = PosZero /\ clean_numeric(call.text) = 0
    /\ (~call.again /\ ~SpellsNumeral(call.pieces)) =>
         ret.value = PosZero /\ clean_numeric(call.text) = 0
    /\ call.again => (FloatEq(ret.value, call.first) <=> Positional(call.first))

\* '1.5' gives 1.5, rendered '1.5', cleaned to 1.5 again
C17_SameValueAgain ==
  /\ call.fn = "clean_numeric"
  /\ ret.done
  /\ call.again
  /\ TextOf(call.pieces) = <<"1", ".", "5">>
  /\ call.text = <<"1", ".", "5">>
  /\ ret.value = [neg |-> FALSE, digits |-> <<"1", "5">>, decpt |-> 1]
  /\ ret.value = call.first

\* neither the exact rules nor the keyword tier gives a role
NoEarlierTier(header, ncols) ==
  /\ ExactRole(Labels(header), ncols) = "None"
  /\ ~(WdHits(header) >= 2 /\ ncols >= 8)
  /\ ~(NwHits(header) >= 2 /\ 6 <= ncols /\ ncols <= 10)
  /\ ~(DbHits(header) >= 2 /\ ncols >= 8)

\* C21: when neither the exact rules nor the keyword tier matches, the
\* single-keyword tier decides whatever the column count: surrender-value when its
\* score is at least 1 and at least the death-benefit score; failing that
\* death-benefit on a hit with no withdrawal hit; failing that withdrawal on any
\* hit; unknown otherwise.
C21_SingleKeywordTier ==
  (call.fn = "_identify_table_type" /\ ret.done /\ NoEarlierTier(call.header, call.ncols)) =>
    LET nw == NwHits(call.header) >= 1 /\ NwHits(call.header) >= DbHits(call.header)
        db == DbHits(call.header) >= 1 /\ WdHits(call.header) = 0
        wd == WdHits(call.header) >= 1
    IN  ret.value = IF nw THEN "no_withdrawal"
                    ELSE IF db THEN "death_benefit"
                    ELSE IF wd THEN "withdrawal"
                    ELSE "None"

\* the single-keyword tier keeps the column ranges of the keyword tier: 6 to 10 for
\* surrender-value, 8 or more for the two others
C21_SingleKeywordTierSameRanges ==
  (call.fn = "_identify_table_type" /\ ret.done /\ NoEarlierTier(call.header, call.ncols)) =>
    LET nw == /\ NwHits(call.header) >= 1 /\ NwHits(call.header) >= DbHits(call.header)
              /\ 6 <= call.ncols /\ call.ncols <= 10
        db == DbHits(call.header) >= 1 /\ WdHits(call.header) = 0 /\ call.ncols >= 8
        wd == WdHits(call.header) >= 1 /\ call.ncols >= 8
    IN  ret.value = IF nw THEN "no_withdrawal"
                    ELSE IF db THEN "death_benefit"
                    ELSE IF wd THEN "withdrawal"
                    ELSE "None"

\* one surrender-value keyword and nothing else, 11 columns: unknown, the column
\* range of the keyword tier applies unchanged
C21_SingleHitOutsideRange ==
  /\ call.fn = "_identify_table_type"
  /\ ret.done
  /\ call.ncols = 11
  /\ Labels(call.header) = {"Surrender"}
  /\ NwHits(call.header) = 1
  /\ ret.value = "None"

\* rows x columns of the k-th unclassified table of a call
SizeOf(kinds, k) == Len(kinds[k].rows) * MaxLen(kinds[k].rows)

\* k is the largest of the positions in S, the earliest of them among equals
LargestOf(kinds, S, k) ==
  /\ k \in S
  /\ \A j \in S : SizeOf(kinds, j) < SizeOf(kinds, k) \/ (SizeOf(kinds, j) = SizeOf(kinds, k) /\ k <= j)

SurrenderShapedAt(kinds) == { k \in 1..Len(kinds) : kinds[k].role = "no_withdrawal" }

KindsOf(ws) == { ws[i].kind : i \in 1..Len(ws) }

\* C22: the fallback runs only when the primary classifier left no surrender-value
\* table; it then makes the largest (rows x columns) overflow table that qualifies
\* the surrender-value table, and when none qualifies it forces the largest overflow
\* table into that role and appends a warning noting the forced choice.
C22_Fallback ==
  (call.fn = "fallback" /\ ret.done) =>
    /\ (call.nw # <<>> \/ call.kinds = <<>>) =>
         /\ ret.value.nw = call.nw
         /\ ret.value.db = call.db
         /\ ret.value.wd = <<>>
         /\ KindsOf(ret.value.warnings) = {"summary"}
    /\ (call.nw = <<>> /\ call.kinds # <<>> /\ SurrenderShapedAt(call.kinds) # {}) =>
         /\ \E k \in SurrenderShapedAt(call.kinds) :
              /\ LargestOf(call.kinds, SurrenderShapedAt(call.kinds), k)
              /\ ret.value.nw = <<Overflow(call.kinds)[k]>>
         /\ "last_resort" \notin KindsOf(ret.value.warnings)
    /\ (call.nw = <<>> /\ call.kinds # <<>> /\ SurrenderShapedAt(call.kinds) = {}) =>
         \E k \in 1..Len(call.kinds) :
           /\ LargestOf(call.kinds, 1..Len(call.kinds), k)
           /\ ret.value.nw = <<Overflow(call.kinds)[k]>>
           /\ \E i \in 1..Len(ret.value.warnings) :
                ret.value.warnings[i] =
                  Warning(1, "last_resort", <<Len(call.kinds[k].rows), MaxLen(call.kinds[k].rows)>>)

\* no table qualifies and the largest overflow table comes second in the document:
\* it is the one forced into the surrender-value role
C22_LargestForced ==
  /\ call.fn = "fallback"
  /\ ret.done
  /\ call.nw = <<>>
  /\ Len(call.kinds) = 2
  /\ SurrenderShapedAt(call.kinds) = {}
  /\ SizeOf(call.kinds, 1) < SizeOf(call.kinds, 2)
  /\ ret.value.nw = <<Overflow(call.kinds)[2]>>
  /\ "last_resort" \in KindsOf(ret.value.warnings)

\* the data rows of the rows of a call, in order
DataOf(rows) == Concat([i \in 1..Len(rows) |-> rows[i].data])

\* the role the shape of the data rows gives: the cell count of the first one, then
\* column 3 of the data rows at 0-based positions 5 to 9
ShapeRole(data) ==
  IF data[1].cols <= 9 THEN "no_withdrawal"
  ELSE IF \E i \in 6..Min(10, Len(data)) : data[i].cols > 3 /\ data[i].positive
    THEN "withdrawal"
  ELSE "death_benefit"

\* the collections of the result that hold the table t
RolesOf(acc, t) ==
  { role \in {"nw", "db", "wd"} : \E i \in 1..Len(acc[role]) : acc[role][i] = t }

\* C23 (as stated): a table with no expanded row whose first cell is purely numeric
\* never receives a role through the heuristic fallback; a table with such rows is
\* classified by the shape of its data rows.
C23_HeuristicByShape ==
  /\ (call.fn = "fallback" /\ ret.done) =>
       \A k \in 1..Len(call.kinds) :
         call.kinds[k].role = "None" => RolesOf(ret.value, Overflow(call.kinds)[k]) = {}
  /\ (call.fn = "_heuristic_classify" /\ ret.done) =>
       ret.value = IF DataOf(call.rows) = <<>> THEN "None" ELSE ShapeRole(DataOf(call.rows))

\* C23 (amended): _heuristic_classify gives no role to a table with no data row, nor
\* to one where int() accepts the first cell of no data row; otherwise the shape of
\* the data rows decides. In the fallback a table with no data row receives a role
\* only as the largest overflow table forced into the surrender-value role.
C23_HeuristicClassify ==
  /\ (call.fn = "fallback" /\ ret.done) =>
       \A k \in 1..Len(call.kinds) :
         call.kinds[k].role = "None" =>
           \/ RolesOf(ret.value, Overflow(call.kinds)[k]) = {}
           \/ /\ RolesOf(ret.value, Overflow(call.kinds)[k]) = {"nw"}
              /\ SurrenderShapedAt(call.kinds) = {}
              /\ LargestOf(call.kinds, 1..Len(call.kinds), k)
              /\ "last_resort" \in KindsOf(ret.value.warnings)
  /\ (call.fn = "_heuristic_classify" /\ ret.done) =>
       ret.value = IF \A i \in 1..Len(DataOf(call.rows)) : ~DataOf(call.rows)[i].int THEN "None"
                   ELSE ShapeRole(DataOf(call.rows))

\* six data rows of 10 cells, the sixth with an amount in column 3: withdrawal
C23_AmountInSlice ==
  /\ call.fn = "_heuristic_classify"
  /\ ret.done
  /\ call.rows = << FiveYearRow, AmountRow >>
  /\ ret.value = "withdrawal"

\* the fields of a header cell for the mapper called
FieldsOf(c, wd) == IF wd THEN c.wd ELSE c.nw

AllFields(wd) ==
  IF wd THEN {"withdrawal_amount", "remaining_guaranteed", "remaining_bonus",
              "remaining_terminal", "remaining_special", "remaining_total"}
  ELSE {"cumulative_premium", "guaranteed_cv", "reversionary_bonus", "terminal_dividend",
        "special_div", "total_surrender"}

\* the 0-based columns after the first two whose header holds a keyword of the field
ColumnsHolding(header, wd, f) ==
  { idx \in 2..(Len(header) - 1) :
      \E i \in 1..Len(FieldsOf(header[idx + 1], wd)) : FieldsOf(header[idx + 1], wd)[i] = f }

\* the 0-based columns after the first two that the if/elif chain gives to the field:
\* the field is the first of the chain with a keyword in the header
ColumnsGiven(header, wd, f) ==
  { idx \in 2..(Len(header) - 1) :
      FieldsOf(header[idx + 1], wd) # <<>> /\ FieldsOf(header[idx + 1], wd)[1] = f }

\* the mapping has column 0 as year and column 1 as age, when the table has them,
\* and maps each field to the lowest column of the set cols(f), when there is one
MapsLowest(mapping, header, wd, cols(_)) ==
  /\ DOMAIN mapping =
       {f \in AllFields(wd) : cols(f) # {}}
         \cup (IF Len(header) >= 1 THEN {"year"} ELSE {})
         \cup (IF Len(header) >= 2 THEN {"age"} ELSE {})
  /\ Len(header) >= 1 => mapping["year"] = 0
  /\ Len(header) >= 2 => mapping["age"] = 1
  /\ \A f \in AllFields(wd) : cols(f) # {} => mapping[f] = SetMin(cols(f))

\* C24 (as stated): column 0 is year, column 1 is age, and every other field is
\* mapped to the lowest-index column whose header holds one of its keywords.
C24_LowestColumnHolding ==
  (call.fn = "column_mapping" /\ ret.done) =>
    MapsLowest(ret.value, call.header, call.wd,
               LAMBDA f : ColumnsHolding(call.header, call.wd, f))

\* C24 (amended): column 0 is year, column 1 is age, and every other column goes to
\* one field at most, the first field of the if/elif chain with a keyword in its
\* header; a field is mapped to the lowest-index column that goes to it, later ones
\* being ignored.
C24_LowestColumnGiven ==
  (call.fn = "column_mapping" /\ ret.done) =>
    MapsLowest(ret.value, call.header, call.wd,
               LAMBDA f : ColumnsGiven(call.header, call.wd, f))

\* 'Total (A)' in column 2 and 'Total' in column 3 of a surrender-value table:
\* column 2 goes to guaranteed_cv, and total_surrender is mapped to column 3
C24_HeaderWithTwoKeywords ==
  /\ call.fn = "column_mapping"
  /\ ret.done
  /\ ~call.wd
  /\ Len(call.header) = 4
  /\ call.header[3].nw = <<"guaranteed_cv", "total_surrender">>
  /\ call.header[4].nw = <<"total_surrender">>
  /\ ret.value["guaranteed_cv"] = 2
  /\ ret.value["total_surrender"] = 3

\* the column of a field: the detected one, else the default of the conventional
\* layout (-1 standing for the last column)
ColumnOf(detected, f) ==
  IF f \in DOMAIN detected THEN detected[f]
  ELSE CASE f = "cumulative_premium" -> 2
         [] f = "guaranteed_cv" -> 3
         [] f = "reversionary_bonus" -> 4
         [] f = "terminal_dividend" -> 5
         [] f = "special_div" -> 6
         [] f = "withdrawal_amount" -> 3
         [] f = "remaining_guaranteed" -> 5
         [] f = "remaining_bonus" -> 6
         [] f = "remaining_terminal" -> 7
         [] f = "remaining_special" -> 8
         [] OTHER -> 0 - 1

\* the amount DataRow(n) holds in column col, 0 beyond its end
AmountAt(n, col) == IF col >= 2 /\ col < n THEN col * 10 * Scale ELSE 0

\* the total: the amount of the total column, of the last column when there is none
\* or, with atEnd, when the total column lies beyond the end of the row
TotalAt(n, col, atEnd) ==
  IF col < 0 \/ (atEnd /\ col >= n) THEN AmountAt(n, n - 1) ELSE AmountAt(n, col)

\* the premium of the record: the amount read, replaced when it is 0 and an annual
\* premium is known (year 1 of the row)
PremiumOf(read, annual_premium) == IF read = 0 /\ annual_premium > 0 THEN annual_premium ELSE read

\* the one record of a call holds the amounts of the columns of its fields
RecordReads(c, rec, atEnd) ==
  LET d == c.header.detected
      n == c.ncells
      spec(f) == IF AmountAt(n, ColumnOf(d, f)) > 0 THEN AmountAt(n, ColumnOf(d, f)) ELSE 0
  IN  IF c.header.wd
      THEN /\ rec.withdrawal_amount = AmountAt(n, ColumnOf(d, "withdrawal_amount"))
           /\ rec.remaining_surrender_guaranteed = AmountAt(n, ColumnOf(d, "remaining_guaranteed"))
           /\ rec.remaining_surrender_bonus = AmountAt(n, ColumnOf(d, "remaining_bonus"))
           /\ rec.remaining_surrender_terminal =
                AmountAt(n, ColumnOf(d, "remaining_terminal")) + spec("remaining_special")
           /\ rec.remaining_surrender_total = TotalAt(n, ColumnOf(d, "remaining_total"), atEnd)
      ELSE /\ rec.cumulative_premium =
                PremiumOf(AmountAt(n, ColumnOf(d, "cumulative_premium")), c.annual_premium)
           /\ rec.guaranteed_cash_value = AmountAt(n, ColumnOf(d, "guaranteed_cv"))
           /\ rec.reversionary_bonus = AmountAt(n, ColumnOf(d, "reversionary_bonus"))
           /\ rec.terminal_dividend =
                AmountAt(n, ColumnOf(d, "terminal_dividend")) + spec("special_div")
           /\ rec.total_surrender_value = TotalAt(n, ColumnOf(d, "total_surrender"), atEnd)

\* C25 (as stated): each field of a record is read from the detected column if the
\* mapper found one and from the default column otherwise, and a column beyond the
\* end of the row gives 0 for the field.
C25_DetectedElseDefaultElseZero ==
  (call.fn = "records" /\ ret.done) =>
    Len(ret.value) = 1 /\ RecordReads(call, ret.value[1], FALSE)

\* C25 (amended): as stated, except that a detected total column beyond the end of
\* the row gives the amount of the last column of the row, like an undetected one.
C25_DetectedElseDefault ==
  (call.fn = "records" /\ ret.done) =>
    Len(ret.value) = 1 /\ RecordReads(call, ret.value[1], TRUE)

\* the fields one column to the right of the conventional layout, a row of 9 cells:
\* the guaranteed value is the amount of column 4, not of the default column 3
C25_DetectedBeatsDefault ==
  /\ call.fn = "records"
  /\ ret.done
  /\ call.header = ShiftedHeader
  /\ call.ncells = 9
  /\ ret.value[1].guaranteed_cash_value = 40 * Scale
  /\ ret.value[1].total_surrender_value = 80 * Scale

\* C26: the terminal dividend of a record is the amount of the terminal-dividend
\* column plus the special-dividend component when one is detected and positive,
\* and the amount of the terminal-dividend column alone when the table has no
\* special-dividend component.
C26_SpecialMergedWhenDetected ==
  (call.fn = "records" /\ ret.done /\ Len(ret.value) = 1) =>
    \E f \in { IF call.header.wd THEN "remaining_special" ELSE "special_div" } :
      \E term \in { AmountAt(call.ncells,
                             ColumnOf(call.header.detected,
                                      IF call.header.wd THEN "remaining_terminal"
                                      ELSE "terminal_dividend")) } :
        \E got \in { IF call.header.wd THEN ret.value[1].remaining_surrender_terminal
                     ELSE ret.value[1].terminal_dividend } :
          IF f \in DOMAIN call.header.detected
          THEN got = term + AmountAt(call.ncells, call.header.detected[f])
          ELSE got = term

\* a 7-column table with no special-dividend column, the total in column 6: the
\* total, 60, is added to the terminal dividend, 50
C26_TotalAddedToTerminal ==
  /\ call.fn = "records"
  /\ ret.done
  /\ call.header = SevenColumnHeader
  /\ call.ncells = 7
  /\ "special_div" \notin DOMAIN call.header.detected
  /\ ret.value[1].total_surrender_value = 60 * Scale
  /\ ret.value[1].terminal_dividend = (50 + 60) * Scale

\* s ends with t
EndsWith(s, t) == Len(t) <= Len(s) /\ SubSeq(s, Len(s) - Len(t) + 1, Len(s)) = t

\* C27: in the returned record, whenever a product was recognized, the payment-year
\* count written at the end of product_name and of product_name_en is
\* policy_info.payment_years, also after payment_years was set again from the
\* yearly series.
C27_NameCarriesPaymentYears ==
  \A r \in Runs :
    (Returned(r) /\ result[r].policy_info.product_name # <<>>) =>
      /\ EndsWith(result[r].policy_info.product_name,
                  PayOpenZh \o Dec(result[r].policy_info.payment_years) \o PayCloseZh)
      /\ EndsWith(result[r].policy_info.product_name_en,
                  PayOpenEn \o Dec(result[r].policy_info.payment_years) \o PayCloseEn)

\* a returned record whose names say 5 years, the count of the first page, while
\* payment_years is 2, the count derived from the yearly series
C27_NameKeepsFirstCount ==
  \E r \in Runs :
    /\ Returned(r)
    /\ HasWarning(r, "auto_premium")
    /\ result[r].policy_info.payment_years = 2
    /\ EndsWith(result[r].policy_info.product_name_en, PayOpenEn \o Dec(5) \o PayCloseEn)
    /\ EndsWith(result[r].policy_info.product_name, PayOpenZh \o Dec(5) \o PayCloseZh)

\* -------------------------------------------------------------------------
\* The web application: request handlers and the cleanup thread (web/app.py)
\* -------------------------------------------------------------------------

CLEANUP_AFTER_SECONDS == 3600

\* the time that passes between two steps
Waits == { 1, CLEANUP_AFTER_SECONDS }

\* request.form.get('password'): "None" when the form has no such field
Passwords == { "None", "pw", "pW" }

\* the environments the application is started in
Environments ==
  { NoEnviron,
    [APP_PASSWORD |-> "pw", SECRET_KEY |-> "None"],
    [APP_PASSWORD |-> "pw", SECRET_KEY |-> "s3cret"] }

\* the keys a client knows: the one written in the source
KnownKeys == { DevKey }

\* session.get('authenticated'): Flask reads the session from the cookie when the
\* cookie's signature is made with the application's key, and an empty one otherwise
SessionOf(cookie) == IF cookie.key = secret_key THEN cookie ELSE NoSession
Authenticated(h) == SessionOf(handler[h].cookie).authenticated

\* request.files['pdf_file'].filename, NoFile when the request has no such file
NoFile == << "None" >>
Filenames ==
  { NoFile, <<>>, << "p", "d", "f" >>, << "A", ".", "P", "d", "f" >> }

TaskRoutes == { "result", "report", "download_excel", "download_html" }

Requests ==
  { [route |-> "login", method |-> "GET"], [route |-> "index"] }
    \cup { [route |-> "login", method |-> "POST", password |-> p] : p \in Passwords }
    \cup { [route |-> "analyze", filename |-> f] : f \in Filenames }
    \cup { [route |-> r, task_id |-> id] : r \in TaskRoutes, id \in TaskIds }

\* the steps of the try block of analyze, in order
Steps == << "save", "extract", "validate", "irr", "excel", "html" >>

\* the files of a task directory once the first n steps have succeeded
Written(n) ==
  (IF n >= 1 THEN { "upload.pdf" } ELSE {})
    \cup (IF n >= 5 THEN { "xlsx" } ELSE {})
    \cup (IF n >= 6 THEN { "html" } ELSE {})

\* tempfile.mkdtemp(), shutil.rmtree(dir, ignore_errors=True), os.path.exists
mkdtemp(fs, dir) == Put(fs, dir, {})
rmtree(fs, dir) == [d \in DOMAIN fs \ { dir } |-> fs[d]]
Exists(fs, path) == path[1] \in DOMAIN fs /\ path[2] \in fs[path[1]]

\* _tasks.pop(task_id)
Pop(d, k) == [x \in DOMAIN d \ { k } |-> d[x]]

\* the entry analyze stores
TaskEntry(task_dir, created_at) ==
  [dir |-> task_dir, excel_path |-> << task_dir, "xlsx" >>,
   html_path |-> << task_dir, "html" >>, created_at |-> created_at]

\* login_required lets the request through to the handler's body
LetThrough(password, authenticated) == ~(password # NoPassword /\ ~authenticated)

\* request.form.get('password') == APP_PASSWORD
PasswordMatches(given, password) == given = password

\* the task entries the cleanup thread finds expired
Expired(tasks, t) ==
  { id \in DOMAIN tasks : t - tasks[id].created_at > CLEANUP_AFTER_SECONDS }

Serving(h, q, c) ==
  [IdleHandler EXCEPT !.pc = IF q.route = "login" THEN "login" ELSE "decorated",
                      !.client = c, !.cookie = session[c], !.request = q]

\* the handler returns: what is left of the request is the response
Done(h, response) ==
  [handler EXCEPT ![h] = [IdleHandler EXCEPT !.pc = "done", !.response = response]]

\* a worker thread takes a request of a client
Request(h) ==
  /\ handler[h].pc = "idle"
  /\ \E c \in Clients, q \in Requests : handler' = [handler EXCEPT ![h] = Serving(h, q, c)]
  /\ UNCHANGED << APP_PASSWORD, secret_key, session, _tasks, _tasks_lock, disk, now, issued, cleaner >>
  /\ UNCHANGED << runVars, call, ret >>

\* the decorator of index, analyze, result, report and the two downloads
LoginRequired(h) ==
  /\ handler[h].pc = "decorated"
  /\ handler' =
       IF LetThrough(APP_PASSWORD, Authenticated(h))
         THEN [handler EXCEPT ![h].pc = "body"]
         ELSE Done(h, "redirect:login")
  /\ UNCHANGED << APP_PASSWORD, secret_key, session, _tasks, _tasks_lock, disk, now, issued, cleaner >>
  /\ UNCHANGED << runVars, call, ret >>

\* login(); the client keeps the cookie the response sets
Login(h) ==
  /\ handler[h].pc = "login"
  /\ LET q == handler[h].request
         granted == /\ APP_PASSWORD # NoPassword
                    /\ q.method = "POST"
                    /\ PasswordMatches(q.password, APP_PASSWORD)
     IN  /\ session' = IF granted
                         THEN [session EXCEPT ![handler[h].client] = Issued(secret_key)]
                         ELSE session
         /\ handler' =
              IF APP_PASSWORD = NoPassword \/ granted THEN Done(h, "redirect:index")
              ELSE IF q.method = "POST" THEN Done(h, "login.html:error")
              ELSE Done(h, "login.html")
  /\ UNCHANGED << APP_PASSWORD, secret_key, _tasks, _tasks_lock, disk, now, issued, cleaner >>
  /\ UNCHANGED << runVars, call, ret >>

\* index()
Index(h) ==
  /\ handler[h].pc = "body"
  /\ handler[h].request.route = "index"
  /\ handler' = Done(h, "index.html")
  /\ UNCHANGED << APP_PASSWORD, secret_key, session, _tasks, _tasks_lock, disk, now, issued, cleaner >>
  /\ UNCHANGED << runVars, call, ret >>

\* analyze() up to the try block: the upload is checked, then the task id is drawn
\* and the task directory made
AnalyzeStart(h) ==
  /\ handler[h].pc = "body"
  /\ handler[h].request.route = "analyze"
  /\ LET filename == handler[h].request.filename
     IN  IF filename = NoFile \/ filename = <<>>
              \/ ~EndsWith(Lower(filename), << ".", "p", "d", "f" >>)
           THEN /\ handler' = Done(h, "error.html:400")
                /\ UNCHANGED << disk, issued >>
           ELSE /\ issued < MaxTasks
                /\ issued' = issued + 1
                /\ disk' = mkdtemp(disk, issued + 1)
                /\ handler' = [handler EXCEPT ![h].pc = "try", ![h].task_id = issued + 1]
  /\ UNCHANGED << APP_PASSWORD, secret_key, session, _tasks, _tasks_lock, now, cleaner >>
  /\ UNCHANGED << runVars, call, ret >>

\* where the try block goes on after the first n steps succeeded: to the storing of
\* the entry when none is left, to the except clause when the next one raised
AfterStepsStore(n) == "store"
AfterSteps(n) == IF n = Len(Steps) THEN "store" ELSE "except"

\* the try block of analyze up to the storing of the entry: the steps run in order
\* until one raises, each writing its file into the task directory
AnalyzeTry(h) ==
  /\ handler[h].pc = "try"
  /\ \E n \in 0..Len(Steps) :
       /\ disk' = [disk EXCEPT ![handler[h].task_id] = Written(n)]
       /\ handler' = [handler EXCEPT ![h].pc = AfterSteps(n)]
  /\ UNCHANGED << APP_PASSWORD, secret_key, session, _tasks, _tasks_lock, now, issued, cleaner >>
  /\ UNCHANGED << runVars, call, ret >>

\* with _tasks_lock: _tasks[task_id] = {...}, then the redirect to the result page
AnalyzeStore(h) ==
  /\ handler[h].pc = "store"
  /\ ~_tasks_lock
  /\ _tasks' = Put(_tasks, handler[h].task_id, TaskEntry(handler[h].task_id, now))
  /\ handler' = Done(h, "redirect:result")
  /\ UNCHANGED << APP_PASSWORD, secret_key, session, _tasks_lock, disk, now, issued, cleaner >>
  /\ UNCHANGED << runVars, call, ret >>

\* except Exception: the task directory is removed and the error page returned
AnalyzeExcept(h) ==
  /\ handler[h].pc = "except"
  /\ disk' = rmtree(disk, handler[h].task_id)
  /\ handler' = Done(h, "error.html:500")
  /\ UNCHANGED << APP_PASSWORD, secret_key, session, _tasks, _tasks_lock, now, issued, cleaner >>
  /\ UNCHANGED << runVars, call, ret >>

\* with _tasks_lock: task = _tasks.get(task_id), in result, report and the downloads;
\* result then renders the entry it holds
Lookup(h) ==
  /\ handler[h].pc = "body"
  /\ handler[h].request.route \in TaskRoutes
  /\ ~_tasks_lock
  /\ \E task \in { Get(_tasks, handler[h].request.task_id, NoTask) } :
       handler' =
         IF task = NoTask
           THEN Done(h, IF handler[h].request.route = "result" THEN "error.html:404"
                                                                ELSE "abort:404")
         ELSE IF handler[h].request.route = "result" THEN Done(h, "result.html")
         ELSE [handler EXCEPT ![h].pc = "send", ![h].task = task]
  /\ UNCHANGED << APP_PASSWORD, secret_key, session, _tasks, _tasks_lock, disk, now, issued, cleaner >>
  /\ UNCHANGED << runVars, call, ret >>

\* the path report and the downloads send
SendPath(h) ==
  IF handler[h].request.route = "download_excel" THEN handler[h].task.excel_path
                                                  ELSE handler[h].task.html_path

\* send_file(path): it raises FileNotFoundError when the file is gone
SendFile(h) ==
  /\ handler[h].pc = "send"
  /\ handler' = IF Exists(disk, SendPath(h)) THEN Done(h, "file")
                                             ELSE Done(h, "FileNotFoundError")
  /\ UNCHANGED << APP_PASSWORD, secret_key, session, _tasks, _tasks_lock, disk, now, issued, cleaner >>
  /\ UNCHANGED << runVars, call, ret >>

\* the response goes out and the worker is free again
Respond(h) ==
  /\ handler[h].pc = "done"
  /\ handler' = [handler EXCEPT ![h] = IdleHandler]
  /\ UNCHANGED << APP_PASSWORD, secret_key, session, _tasks, _tasks_lock, disk, now, issued, cleaner >>
  /\ UNCHANGED << runVars, call, ret >>

\* a client makes itself a session cookie that says authenticated, signed with a key
\* it knows
ForgeCookie ==
  /\ \E c \in Clients, key \in KnownKeys :
       /\ session[c] # Forged(key)
       /\ session' = [session EXCEPT ![c] = Forged(key)]
  /\ UNCHANGED << APP_PASSWORD, secret_key, _tasks, _tasks_lock, disk, now, issued, handler,
                  cleaner >>
  /\ UNCHANGED << runVars, call, ret >>

\* time passes: the clock is looked at when an expiry period is over and up to
\* MaxSeconds seconds after
Elapse ==
  /\ \E d \in Waits :
       /\ now + d <= CLEANUP_AFTER_SECONDS + MaxSeconds
       /\ (now + d) % CLEANUP_AFTER_SECONDS <= MaxSeconds
       /\ now' = now + d
  /\ UNCHANGED << APP_PASSWORD, secret_key, session, _tasks, _tasks_lock, disk, issued, handler, cleaner >>
  /\ UNCHANGED << runVars, call, ret >>

\* _cleanup_old_tasks: time.sleep(300) is over, now = time.time(), and with
\* _tasks_lock the first loop collects the expired task ids. The clock is read before
\* the lock is taken; an entry stored in between is younger than the reading and not
\* collected, as it is not when both happen at once.
CleanupScan ==
  /\ cleaner.pc = "sleeping"
  /\ ~_tasks_lock
  /\ _tasks_lock' = TRUE
  /\ cleaner' = [pc |-> "removing", now |-> now, expired |-> Expired(_tasks, now)]
  /\ UNCHANGED << APP_PASSWORD, secret_key, session, _tasks, disk, now, issued, handler >>
  /\ UNCHANGED << runVars, call, ret >>

\* the second loop, one turn: the entry is popped and its directory removed
CleanupRemove ==
  /\ cleaner.pc = "removing"
  /\ cleaner.expired # {}
  /\ \E id \in { SetMin(cleaner.expired) } :
       /\ _tasks' = Pop(_tasks, id)
       /\ disk' = rmtree(disk, _tasks[id].dir)
       /\ cleaner' = [cleaner EXCEPT !.expired = @ \ { id }]
  /\ UNCHANGED << APP_PASSWORD, secret_key, session, _tasks_lock, now, issued, handler >>
  /\ UNCHANGED << runVars, call, ret >>

\* the lock is released and the thread sleeps again
CleanupRelease ==
  /\ cleaner.pc = "removing"
  /\ cleaner.expired = {}
  /\ _tasks_lock' = FALSE
  /\ cleaner' = Sleeping
  /\ UNCHANGED << APP_PASSWORD, secret_key, session, _tasks, disk, now, issued, handler >>
  /\ UNCHANGED << runVars, call, ret >>

InitWeb == Idle /\ call = NoCall /\ ret = Pending /\ Loaded(Environments)

NextWeb ==
  \/ \E h \in Workers :
       \/ Request(h)
       \/ LoginRequired(h)
       \/ Login(h)
       \/ Index(h)
       \/ AnalyzeStart(h)
       \/ AnalyzeTry(h)
       \/ AnalyzeStore(h)
       \/ AnalyzeExcept(h)
       \/ Lookup(h)
       \/ SendFile(h)
       \/ Respond(h)
  \/ ForgeCookie
  \/ Elapse
  \/ CleanupScan
  \/ CleanupRemove
  \/ CleanupRelease

SpecWeb == InitWeb /\ [][NextWeb]_vars

\* the worker is inside the body of a handler behind login_required
InBody(h) == handler[h].pc \in { "body", "try", "store", "except", "send" }

\* C28: analyze adds a task entry only after saving, extraction, validation, rate
\* calculation and both report writers have all succeeded, the files of all of them
\* being in the task directory; until then the task id is not in the task table; when
\* a step fails, the task table is as it was, and the except clause removes the task
\* directory, adds no entry and answers with the error page.
C28_EntryOnlyAfterAllSteps ==
  [][ /\ \A id \in TaskIds :
           (id \notin DOMAIN _tasks /\ id \in DOMAIN _tasks') =>
             /\ \E h \in Workers :
                  /\ handler[h].pc = "store"
                  /\ handler[h].request.route = "analyze"
                  /\ handler[h].task_id = id
                  /\ handler'[h].response = "redirect:result"
             /\ id \in DOMAIN disk
             /\ disk[id] = Written(Len(Steps))
             /\ _tasks'[id] = TaskEntry(id, now)
      /\ \A h \in Workers :
           /\ handler[h].pc \in { "try", "except" } => handler[h].task_id \notin DOMAIN _tasks
           /\ (handler[h].pc = "try" /\ handler'[h].pc = "except") => _tasks' = _tasks
           /\ (handler[h].pc = "except" /\ handler'[h] # handler[h]) =>
                /\ handler[h].task_id \notin DOMAIN disk'
                /\ handler[h].task_id \notin DOMAIN _tasks'
                /\ _tasks' = _tasks
                /\ handler'[h].response = "error.html:500" ]_vars

\* an upload was saved and a later step failed: the error page is returned, the
\* directory made for the request is gone and the task table is empty
C28_FailedAndRemoved ==
  \E h \in Workers :
    /\ handler[h].pc = "done"
    /\ handler[h].response = "error.html:500"
    /\ issued = 1
    /\ 1 \notin DOMAIN disk
    /\ _tasks = EmptyDict

\* C29: a task's entry and directory are removed only by the cleanup thread and only
\* once the task is older than CLEANUP_AFTER_SECONDS, and a report or download handler
\* that found the entry and is about to send the file finds the file there.
C29_ServedFilesExist ==
  [][ /\ \A id \in DOMAIN _tasks :
           (id \notin DOMAIN _tasks' \/ (id \in DOMAIN disk /\ id \notin DOMAIN disk')) =>
             /\ cleaner.pc = "removing"
             /\ id \in cleaner.expired
             /\ now - _tasks[id].created_at > CLEANUP_AFTER_SECONDS
      /\ \A h \in Workers : handler[h].pc = "send" => Exists(disk, SendPath(h)) ]_vars

\* a report or download handler found the entry, the cleanup thread then removed the
\* directory, and send_file raised
C29_FileGoneBeforeSend ==
  \E h \in Workers :
    /\ handler[h].pc = "done"
    /\ handler[h].response = "FileNotFoundError"

\* what every step keeps of the protection by login_required and login
Protected ==
  /\ \A h \in Workers :
       /\ InBody(h) => (APP_PASSWORD = NoPassword \/ Authenticated(h))
       /\ (handler[h].pc = "decorated" /\ handler'[h] # handler[h]) =>
            IF APP_PASSWORD # NoPassword /\ ~Authenticated(h)
              THEN /\ handler'[h].pc = "done"
                   /\ handler'[h].response = "redirect:login"
                   /\ UNCHANGED << _tasks, disk, issued, session >>
              ELSE handler'[h].pc = "body"
  /\ \A c \in Clients :
       ( /\ APP_PASSWORD # NoPassword
         /\ ~SessionOf(session[c]).authenticated
         /\ SessionOf(session'[c]).authenticated ) =>
         \E h \in Workers :
           /\ handler[h].pc = "login"
           /\ handler[h].client = c
           /\ handler[h].request.method = "POST"
           /\ handler[h].request.password = APP_PASSWORD

\* C30: with APP_PASSWORD set, a worker is in the body of index, analyze, result,
\* report or a download only for a client whose session is authenticated, a request of
\* any other client is answered by the redirect to the login page with no task id
\* drawn, no directory made, no entry stored and no file sent, and a session becomes
\* authenticated only in login, on a POST whose password is APP_PASSWORD; with
\* APP_PASSWORD empty every request goes through to the body.
C30_BodyOnlyWhenAuthenticated == [][Protected]_vars

\* the same when SECRET_KEY is set to a key no client knows
C30_WithSecretKey == [][secret_key \notin KnownKeys => Protected]_vars

\* with a password set and no SECRET_KEY, a worker is in the body of a handler for a
\* client whose cookie was not given out by login
C30_InBodyWithForgedCookie ==
  \E h \in Workers :
    /\ APP_PASSWORD # NoPassword
    /\ InBody(h)
    /\ Authenticated(h)
    /\ handler[h].cookie.issuer = "client"

\* with a password and a secret key set, one request was sent to the login page and,
\* after the login, another is in the body of its handler
C30_RedirectedThenLetThrough ==
  \E h1, h2 \in Workers :
    /\ APP_PASSWORD # NoPassword
    /\ secret_key \notin KnownKeys
    /\ handler[h1].pc = "done"
    /\ handler[h1].response = "redirect:login"
    /\ InBody(h2)
    /\ Authenticated(h2)

====
